---------------------------- MODULE Spec2Model ----------------------------
(***************************************************************************)
(* Retrieval engine of privateai-chatspace: the vector-store backends      *)
(* (Qdrant, LanceDB), the backend factory, the cross-encoder reranker, the *)
(* LLM query expander and the RAGService.search orchestration.             *)
(*                                                                         *)
(* Strings that the code inspects character by character (LLM response     *)
(* lines, collection names) are sequences of one-character strings.        *)
(* Scores are exact rationals <<numerator, denominator>>, denominator > 0. *)
(***************************************************************************)
EXTENDS Integers, Sequences, FiniteSets, TLC

VARIABLES
    \* ---- vector_store/factory.py module globals
    current_store_type,     \* _current_store_type ("none" = None)
    vector_store_instances, \* keys of _vector_store_instances
    \* ---- backing storage of each backend: backend -> [collection name -> rows]
    tables,
    nextId,                 \* source of fresh point ids (uuid4)
    opLog,                  \* last store operation and what it returned
    \* ---- reranker_service module state
    ce_available,           \* CROSS_ENCODER_AVAILABLE
    rr_loaded,              \* RerankerService._loaded
    rr_model,               \* RerankerService._reranker ("none" = None)
    rr_call,                \* last direct RerankerService.rerank call
    \* ---- one in-flight RAGService.search call
    pc,                     \* position of the coroutine
    args,                   \* its arguments
    queries,                \* local `queries`
    qi,                     \* index of the variant the for-loop is at
    all_candidates,         \* local dict, in insertion order
    result,                 \* value returned to the caller
    raised,                 \* TRUE iff an exception left search()
    hist,                   \* bookkeeping about the call (not program state)
    \* ---- last RAGService._expand_query call
    ex_call,
    \* ---- last direct VectorStore.search call, with what the index answered
    store_call,
    \* ---- concurrent ensure_collection / add_document coroutines
    tasks,
    \* ---- concurrent users of the lazily initialised resources
    lazy,
    \* ---- last DocumentService.chunk_text call
    chunk_call,
    \* ---- QdrantVectorStore._text_to_sparse calls, with the process they ran in
    sparse_call,
    \* ---- the last call of a factory function, and the type last set
    fac_log,
    \* ---- last RAGService.add_document call
    add_call

vars == <<current_store_type, vector_store_instances, tables, nextId, opLog,
          ce_available, rr_loaded, rr_model, rr_call,
          pc, args, queries, qi, all_candidates, result, raised, hist, ex_call,
          store_call, tasks, lazy, chunk_call, sparse_call, fac_log, add_call>>

factoryVars == <<current_store_type, vector_store_instances>>
storeVars   == <<tables, nextId, opLog>>
rerankVars  == <<ce_available, rr_loaded, rr_model, rr_call>>
searchVars  == <<pc, args, queries, qi, all_candidates, result, raised, hist>>
directVars  == <<store_call, tasks, lazy>>
docVars     == <<chunk_call, sparse_call, fac_log, add_call>>

-----------------------------------------------------------------------------
(* Bounds of the model *)

\* largest `limit` / `rerank_top_k` / `top_k` argument tried
MaxLimit == 2
\* most lines the LLM answers with in a search call
MaxLines == 1
\* most store operations in one run of the store specification
MaxOps == 3
\* largest workspace id whose collection name is compared with the others
MaxWorkspaceId == 12

-----------------------------------------------------------------------------
(* Generic helpers *)

Min(a, b) == IF a <= b THEN a ELSE b
Max(a, b) == IF a >= b THEN a ELSE b

\* Mutant: the slice keeps everything
PySliceWhole(s, k) == s

\* Python's s[:k]
PySlice(s, k) ==
    IF k >= 0 THEN SubSeq(s, 1, Min(k, Len(s)))
    ELSE SubSeq(s, 1, Max(Len(s) + k, 0))

\* exact rational scores
ScoreGT(a, b) == a[1] * b[2] > b[1] * a[2]
ScoreGE(a, b) == a[1] * b[2] >= b[1] * a[2]
ScoreEQ(a, b) == a[1] * b[2] = b[1] * a[2]
ScoreAdd(a, b) == <<a[1] * b[2] + b[1] * a[2], a[2] * b[2]>>
ScoreZero == <<0, 1>>

\* Python's sorted(s, key=..., reverse=True): stable; keys[i] is the key of
\* s[i], an exact rational.  Insertion sort on the indices: an element goes
\* behind every element whose key is not smaller.
StableSortDesc(s, keys) ==
    LET Ins(sorted, x) ==
            LET k == Cardinality({i \in DOMAIN sorted : ~ScoreGT(keys[x], keys[sorted[i]])})
            IN  SubSeq(sorted, 1, k) \o <<x>> \o SubSeq(sorted, k + 1, Len(sorted))
        F[i \in 0..Len(s)] == IF i = 0 THEN <<>> ELSE Ins(F[i - 1], i)
    IN  [i \in 1..Len(s) |-> s[F[Len(s)][i]]]

-----------------------------------------------------------------------------
(* Data the model runs on *)

StoreTypes == {"qdrant", "lancedb"}
WorkspaceIds == {2, 12}
DocIds == {1, 2}

\* chunk texts of the documents (opaque texts; both documents hold chunk "A")
ChunksOf(d) == IF d = 1 THEN <<"A", "B">> ELSE <<"A", "C">>

\* caller-supplied document-level metadata: None, or a filename
NoMeta == [k \in {} |-> ""]
Metas == {NoMeta, [filename |-> "doc.md"]}

\* query texts
Q0 == <<"a">>
Q1 == <<"b">>
Q2 == <<"c">>

\* Embedding collaborator + cosine: cos(embed(q), embed(content)) in hundredths
Cos(q, c) ==
    CASE q = Q0 -> (CASE c = "A" -> 90 [] c = "B" -> 50 [] OTHER -> 10)
      [] q = Q1 -> (CASE c = "A" -> 50 [] c = "B" -> 90 [] OTHER -> 50)
      [] q = Q2 -> (CASE c = "A" -> 90 [] c = "B" -> 90 [] OTHER -> 0 - 20)
      [] OTHER  -> 0

\* Vector index collaborator: keyword (sparse, IDF-weighted) match of a query
\* text with a chunk; 0 = no common term, the point is not a sparse hit
SparseMatch(q, c) ==
    CASE q = Q0 -> (CASE c = "A" -> 2 [] c = "B" -> 0 [] OTHER -> 1)
      [] q = Q1 -> (CASE c = "A" -> 0 [] c = "B" -> 3 [] OTHER -> 3)
      [] q = Q2 -> (CASE c = "A" -> 1 [] c = "B" -> 0 [] OTHER -> 0)
      [] OTHER  -> 0

-----------------------------------------------------------------------------
(* Vector stores: qdrant_store.py, lancedb_store.py *)

RECURSIVE Digits(_)
\* str(n) of a non-negative int, as its decimal digits
Digits(n) == IF n < 10 THEN <<n>> ELSE Append(Digits(n \div 10), n % 10)

\* Mutant: the name keeps only the last digit of the id
CollectionNameLastDigit(workspace_id) == <<"workspace_">> \o <<workspace_id % 10>>

\* QdrantVectorStore._collection_name: f"workspace_{workspace_id}"
CollectionName(workspace_id) == <<"workspace_">> \o Digits(workspace_id)

\* LanceDBVectorStore._table_name: f"workspace_{workspace_id}"
\* Mutant: one table name for every workspace
TableNameShared(workspace_id) == <<"workspace">>

TableName(workspace_id) == <<"workspace_">> \o Digits(workspace_id)

NameOf(b, workspace_id) ==
    IF b = "qdrant" THEN CollectionName(workspace_id) ELSE TableName(workspace_id)

\* {**base, **metadata}: later keys win
MergeMeta(base, meta) ==
    [k \in (DOMAIN base) \cup (DOMAIN meta) |->
        IF k \in DOMAIN meta THEN meta[k] ELSE base[k]]

\* The records one add_document call persists (payload / table row).  `id` is
\* the fresh uuid4; `ws` is bookkeeping: the workspace id of the call.
BuildRows(workspace_id, document_id, chunks, metadata, id0) ==
    [i \in 1..Len(chunks) |->
        MergeMeta([content |-> chunks[i],
                   document_id |-> document_id,
                   total_chunks |-> Len(chunks),
                   chunk_index |-> i - 1],
                  metadata)
        @@ [id |-> id0 + i - 1, ws |-> workspace_id]]

\* A collection: its rows in insertion order; `named` = created with the
\* named dense + sparse vectors (every collection ensure_collection creates)
NewCollection(named) == [named |-> named, rows |-> <<>>]

Exists(T, name) == name \in DOMAIN T

\* SearchResult built from a hit (_hit_to_search_result / lancedb search loop)
Hit(row, score) ==
    [content |-> row.content, score |-> score,
     document_id |-> row.document_id, chunk_index |-> row.chunk_index,
     id |-> row.id, ws |-> row.ws]

\* query_points(using="dense"): best cosine first, at most `limit`, and only
\* scores >= score_threshold when one is passed (useThreshold)
DenseQuery(rows, q, limit, useThreshold, score_threshold) ==
    LET keys == [i \in DOMAIN rows |-> <<Cos(q, rows[i].content), 100>>]
        ranked == StableSortDesc(rows, keys)
        kept == SelectSeq(ranked, LAMBDA r :
                    (~useThreshold) \/ ScoreGE(<<Cos(q, r.content), 100>>, score_threshold))
    IN  PySlice(kept, limit)

\* query_points(using="sparse"): points sharing a term, best match first
SparseQuery(rows, q, limit) ==
    LET matching == SelectSeq(rows, LAMBDA r : SparseMatch(q, r.content) > 0)
        keys == [i \in DOMAIN matching |-> <<SparseMatch(q, matching[i].content), 1>>]
    IN  PySlice(StableSortDesc(matching, keys), limit)

\* RRF constant k
RRF_K == 60

\* Mutant: ranks counted from 1
RankInOneBased(sub, id) ==
    IF \E i \in DOMAIN sub : sub[i].id = id
    THEN CHOOSE i \in DOMAIN sub : sub[i].id = id
    ELSE 0 - 1

\* 0-based rank of point id in a sublist, -1 if absent
RankIn(sub, id) ==
    IF \E i \in DOMAIN sub : sub[i].id = id
    THEN (CHOOSE i \in DOMAIN sub : sub[i].id = id) - 1
    ELSE 0 - 1

\* QdrantVectorStore._hybrid_search
HybridSearch(rows, q, limit, score_threshold) ==
    LET dense_results == DenseQuery(rows, q, limit * 2, FALSE, ScoreZero)
        sparse_results == SparseQuery(rows, q, limit * 2)
        \* rrf_scores in insertion order: dense hits, then sparse-only hits
        fused == dense_results \o
                 SelectSeq(sparse_results, LAMBDA r : RankIn(dense_results, r.id) < 0)
        Part(sub, id) == IF RankIn(sub, id) < 0 THEN ScoreZero
                         ELSE <<1, RRF_K + RankIn(sub, id) + 1>>
        rrf_scores == [i \in 1..Len(fused) |->
                          [hit |-> fused[i],
                           score |-> ScoreAdd(Part(dense_results, fused[i].id),
                                              Part(sparse_results, fused[i].id))]]
        keys == [i \in DOMAIN rrf_scores |-> rrf_scores[i].score]
        sorted_results == PySlice(StableSortDesc(rrf_scores, keys), limit)
    IN  [i \in 1..Len(sorted_results) |->
            Hit(sorted_results[i].hit, sorted_results[i].score)]

\* QdrantVectorStore._dense_search
DenseSearch(rows, q, limit, score_threshold) ==
    LET results == DenseQuery(rows, q, limit, ScoreGT(score_threshold, ScoreZero),
                              score_threshold)
    IN  [i \in 1..Len(results) |-> Hit(results[i], <<Cos(q, results[i].content), 100>>)]

\* Mutant: the fused path is taken whenever hybrid is asked for
QdrantSearchAlwaysHybrid(T, workspace_id, q, limit, score_threshold, use_hybrid, backendFails) ==
    LET collection_name == CollectionName(workspace_id)
    IN  IF backendFails \/ ~Exists(T, collection_name) THEN <<>>
        ELSE IF use_hybrid
             THEN HybridSearch(T[collection_name].rows, q, limit, score_threshold)
             ELSE DenseSearch(T[collection_name].rows, q, limit, score_threshold)

\* QdrantVectorStore.search; backendFails = the client raises
QdrantSearch(T, workspace_id, q, limit, score_threshold, use_hybrid, backendFails) ==
    LET collection_name == CollectionName(workspace_id)
    IN  IF backendFails \/ ~Exists(T, collection_name) THEN <<>>
        ELSE IF use_hybrid /\ T[collection_name].named
             THEN HybridSearch(T[collection_name].rows, q, limit, score_threshold)
             ELSE DenseSearch(T[collection_name].rows, q, limit, score_threshold)

\* LanceDBVectorStore._distance_to_similarity, distance in hundredths
DistanceToSimilarity(distance) ==
    LET similarity == <<200 - distance, 200>>
    IN  IF ScoreGT(ScoreZero, similarity) THEN ScoreZero
        ELSE IF ScoreGT(similarity, <<1, 1>>) THEN <<1, 1>>
        ELSE similarity

\* LanceDBVectorStore.search
LanceSearch(T, workspace_id, q, limit, score_threshold, use_hybrid, backendFails) ==
    LET table_name == TableName(workspace_id)
    IN  IF ~Exists(T, table_name) \/ backendFails THEN <<>>
        ELSE
          LET rows == T[table_name].rows
              \* cosine distance = 1 - cos; nearest first
              keys == [i \in DOMAIN rows |-> <<Cos(q, rows[i].content), 100>>]
              results == PySlice(StableSortDesc(rows, keys), limit)
              ScoreOf(r) == DistanceToSimilarity(100 - Cos(q, r.content))
              kept == SelectSeq(results, LAMBDA r : ~ScoreGT(score_threshold, ScoreOf(r)))
          IN  [i \in 1..Len(kept) |-> Hit(kept[i], ScoreOf(kept[i]))]

StoreSearch(b, T, workspace_id, q, limit, score_threshold, use_hybrid, backendFails) ==
    IF b = "qdrant"
    THEN QdrantSearch(T, workspace_id, q, limit, score_threshold, use_hybrid, backendFails)
    ELSE LanceSearch(T, workspace_id, q, limit, score_threshold, use_hybrid, backendFails)

\* rows appended to a collection (upsert / table.add)
WithRows(T, name, named, rows) ==
    LET old == IF Exists(T, name) THEN T[name] ELSE NewCollection(named)
    IN  [n \in (DOMAIN T) \cup {name} |->
            IF n = name THEN [old EXCEPT !.rows = old.rows \o rows] ELSE T[n]]

Without(T, name) == [n \in (DOMAIN T) \ {name} |-> T[n]]

\* Store operations answer [T: the storage afterwards, ret: the value returned
\* (FALSE stands for None, and for no value when raised), raised].
\* QdrantVectorStore.ensure_collection; fail = get_collections, the test
\* embedding or create_collection raises
QdrantEnsure(T, workspace_id, fail) ==
    LET collection_name == CollectionName(workspace_id)
    IN  IF fail THEN [T |-> T, ret |-> FALSE, raised |-> TRUE]
        ELSE IF Exists(T, collection_name)
             THEN [T |-> T, ret |-> FALSE, raised |-> FALSE]
             ELSE [T |-> WithRows(T, collection_name, TRUE, <<>>),
                   ret |-> FALSE, raised |-> FALSE]

\* LanceDBVectorStore.ensure_collection: pass
LanceEnsure(T, workspace_id, fail) == [T |-> T, ret |-> FALSE, raised |-> FALSE]

\* QdrantVectorStore.add_document; fail: "none", "ensure" (ensure_collection
\* raises) or "write" (client.upsert raises)
QdrantAdd(T, workspace_id, document_id, chunks, metadata, id0, fail) ==
    LET ensured == QdrantEnsure(T, workspace_id, fail = "ensure")
        collection_name == CollectionName(workspace_id)
        points == BuildRows(workspace_id, document_id, chunks, metadata, id0)
    IN  IF ensured.raised THEN ensured
        ELSE IF fail = "write" THEN [T |-> ensured.T, ret |-> FALSE, raised |-> TRUE]
        ELSE [T |-> WithRows(ensured.T, collection_name, TRUE, points),
              ret |-> TRUE, raised |-> FALSE]

\* LanceDBVectorStore.add_document; any failure is caught and answered False
LanceAdd(T, workspace_id, document_id, chunks, metadata, id0, fail) ==
    LET table_name == TableName(workspace_id)
        data == BuildRows(workspace_id, document_id, chunks, metadata, id0)
    IN  IF fail # "none" THEN [T |-> T, ret |-> FALSE, raised |-> FALSE]
        ELSE [T |-> WithRows(T, table_name, FALSE, data),
              ret |-> TRUE, raised |-> FALSE]

\* Mutant: the delete empties the collection
DeleteRowsAll(T, name, document_id) == [T EXCEPT ![name].rows = <<>>]

\* rows left after deleting the points whose payload document_id matches
DeleteRows(T, name, document_id) ==
    [T EXCEPT ![name].rows = SelectSeq(@, LAMBDA r : r.document_id # document_id)]

\* QdrantVectorStore.delete_document
QdrantDeleteDocument(T, workspace_id, document_id, fail) ==
    LET collection_name == CollectionName(workspace_id)
    IN  IF fail THEN [T |-> T, ret |-> FALSE, raised |-> FALSE]
        ELSE IF ~Exists(T, collection_name) THEN [T |-> T, ret |-> TRUE, raised |-> FALSE]
        ELSE [T |-> DeleteRows(T, collection_name, document_id),
              ret |-> TRUE, raised |-> FALSE]

\* LanceDBVectorStore.delete_document
LanceDeleteDocument(T, workspace_id, document_id, fail) ==
    LET table_name == TableName(workspace_id)
    IN  IF ~Exists(T, table_name) THEN [T |-> T, ret |-> TRUE, raised |-> FALSE]
        ELSE IF fail THEN [T |-> T, ret |-> FALSE, raised |-> FALSE]
        ELSE [T |-> DeleteRows(T, table_name, document_id),
              ret |-> TRUE, raised |-> FALSE]

\* QdrantVectorStore.delete_workspace: True whether or not the client raised
QdrantDeleteWorkspace(T, workspace_id, fail) ==
    LET collection_name == CollectionName(workspace_id)
    IN  IF fail THEN [T |-> T, ret |-> TRUE, raised |-> FALSE]
        ELSE [T |-> Without(T, collection_name), ret |-> TRUE, raised |-> FALSE]

\* LanceDBVectorStore.delete_workspace: True whether or not drop_table raised
LanceDeleteWorkspace(T, workspace_id, fail) ==
    LET table_name == TableName(workspace_id)
    IN  IF Exists(T, table_name) /\ ~fail
        THEN [T |-> Without(T, table_name), ret |-> TRUE, raised |-> FALSE]
        ELSE [T |-> T, ret |-> TRUE, raised |-> FALSE]

VectorStoreStats(vector_count, document_count) ==
    [vector_count |-> vector_count, document_count |-> document_count]

\* get_stats of either backend (same logic in both)
GetStats(b, T, workspace_id, fail) ==
    LET name == NameOf(b, workspace_id)
    IN  IF ~Exists(T, name) \/ fail THEN VectorStoreStats(0, 0)
        ELSE VectorStoreStats(Len(T[name].rows),
                 Cardinality({T[name].rows[i].document_id : i \in DOMAIN T[name].rows}))

StoreAdd(b, T, workspace_id, document_id, chunks, metadata, id0, fail) ==
    IF b = "qdrant"
    THEN QdrantAdd(T, workspace_id, document_id, chunks, metadata, id0, fail)
    ELSE LanceAdd(T, workspace_id, document_id, chunks, metadata, id0, fail)

StoreDeleteDocument(b, T, workspace_id, document_id, fail) ==
    IF b = "qdrant" THEN QdrantDeleteDocument(T, workspace_id, document_id, fail)
    ELSE LanceDeleteDocument(T, workspace_id, document_id, fail)

StoreDeleteWorkspace(b, T, workspace_id, fail) ==
    IF b = "qdrant" THEN QdrantDeleteWorkspace(T, workspace_id, fail)
    ELSE LanceDeleteWorkspace(T, workspace_id, fail)

StoreEnsure(b, T, workspace_id, fail) ==
    IF b = "qdrant" THEN QdrantEnsure(T, workspace_id, fail)
    ELSE LanceEnsure(T, workspace_id, fail)

EmptyTables == [b \in StoreTypes |-> [n \in {} |-> NewCollection(FALSE)]]

-----------------------------------------------------------------------------
(* The store operations as a state machine (one backend call per step) *)

Queries == {Q0, Q1, Q2}
Thresholds == {ScoreZero, <<7, 10>>}
NoStats == VectorStoreStats(0, 0)

Logged(op, b, w, d, ret, didRaise, hits, stats) ==
    [n |-> opLog.n + 1, op |-> op, b |-> b, w |-> w, d |-> d,
     ret |-> ret, raised |-> didRaise, hits |-> hits, stats |-> stats]

\* The calls go to the active backend, as through RAGService.vector_store
Active == current_store_type

StoreFrame == UNCHANGED <<factoryVars, rerankVars, searchVars, ex_call, directVars, docVars>>

OpAddDocument ==
    \E w \in WorkspaceIds, d \in DocIds, metadata \in Metas,
       fail \in {"none", "ensure", "write"} :
        LET r == StoreAdd(Active, tables[Active], w, d, ChunksOf(d), metadata, nextId, fail)
        IN  /\ opLog.n < MaxOps
            /\ tables' = [tables EXCEPT ![Active] = r.T]
            /\ nextId' = IF r.ret THEN nextId + Len(ChunksOf(d)) ELSE nextId
            /\ opLog' = Logged("add_document", Active, w, d, r.ret, r.raised, <<>>, NoStats)
            /\ StoreFrame

OpEnsureCollection ==
    \E w \in WorkspaceIds, fail \in BOOLEAN :
        LET r == StoreEnsure(Active, tables[Active], w, fail)
        IN  /\ opLog.n < MaxOps
            /\ tables' = [tables EXCEPT ![Active] = r.T]
            /\ opLog' = Logged("ensure_collection", Active, w, 0, r.ret, r.raised,
                               <<>>, NoStats)
            /\ UNCHANGED nextId
            /\ StoreFrame

OpDeleteDocument ==
    \E w \in WorkspaceIds, d \in DocIds, fail \in BOOLEAN :
        LET r == StoreDeleteDocument(Active, tables[Active], w, d, fail)
        IN  /\ opLog.n < MaxOps
            /\ tables' = [tables EXCEPT ![Active] = r.T]
            /\ opLog' = Logged("delete_document", Active, w, d, r.ret, r.raised,
                               <<>>, NoStats)
            /\ UNCHANGED nextId
            /\ StoreFrame

OpDeleteWorkspace ==
    \E w \in WorkspaceIds, fail \in BOOLEAN :
        LET r == StoreDeleteWorkspace(Active, tables[Active], w, fail)
        IN  /\ opLog.n < MaxOps
            /\ tables' = [tables EXCEPT ![Active] = r.T]
            /\ opLog' = Logged("delete_workspace", Active, w, 0, r.ret, r.raised,
                               <<>>, NoStats)
            /\ UNCHANGED nextId
            /\ StoreFrame

OpSearch ==
    \E w \in WorkspaceIds, q \in Queries, limit \in 1..MaxLimit,
       score_threshold \in Thresholds, use_hybrid \in BOOLEAN, fail \in BOOLEAN :
        /\ opLog.n < MaxOps
        /\ opLog' = Logged("search", Active, w, 0, TRUE, FALSE,
                           StoreSearch(Active, tables[Active], w, q, limit,
                                       score_threshold, use_hybrid, fail),
                           NoStats)
        /\ UNCHANGED <<tables, nextId>>
        /\ StoreFrame

OpGetStats ==
    \E w \in WorkspaceIds, fail \in BOOLEAN :
        /\ opLog.n < MaxOps
        /\ opLog' = Logged("get_stats", Active, w, 0, TRUE, FALSE, <<>>,
                           GetStats(Active, tables[Active], w, fail))
        /\ UNCHANGED <<tables, nextId>>
        /\ StoreFrame

NoOp == [n |-> 0, op |-> "none", b |-> "qdrant", w |-> 0, d |-> 0,
         ret |-> FALSE, raised |-> FALSE, hits |-> <<>>, stats |-> NoStats]

NoSearchArgs ==
    [workspace_id |-> 0, query |-> <<>>, limit |-> 0, score_threshold |-> ScoreZero,
     hybrid |-> FALSE, use_reranking |-> FALSE, rerank_top_k |-> 0,
     use_query_expansion |-> FALSE]
NoHist == [failure |-> "none", storeFailed |-> FALSE, retrieved |-> <<>>,
           servedBy |-> <<>>, initial |-> <<>>, rerank |-> "off",
           rerank_query |-> <<>>]
NoRerankCall == [candidates |-> <<>>, top_k |-> 0, outcome |-> "none", out |-> <<>>,
                 raised |-> FALSE]
NoExpandCall == [called |-> FALSE, query |-> <<>>,
                 response |-> [kind |-> "none", lines |-> <<>>], out |-> <<>>]
NoStoreCall ==
    [called |-> FALSE, b |-> "qdrant", w |-> 0, q |-> <<>>, limit |-> 0,
     score_threshold |-> ScoreZero, use_hybrid |-> FALSE, failed |-> FALSE,
     kind |-> "absent", dense |-> <<>>, sparse |-> <<>>, hits |-> <<>>,
     rag |-> <<>>, rag_raised |-> FALSE]
NoTasks == <<>>
NoLazy == <<>>

\* the variables of the parts a specification does not exercise
IdleFactory == current_store_type = "none" /\ vector_store_instances = {}
IdleStore   == tables = EmptyTables /\ nextId = 1 /\ opLog = NoOp
IdleRerank  == ce_available = TRUE /\ rr_loaded = FALSE /\ rr_model = "none"
               /\ rr_call = NoRerankCall
IdleSearch  == pc = "idle" /\ args = NoSearchArgs /\ queries = <<>> /\ qi = 0
               /\ all_candidates = <<>> /\ result = <<>> /\ raised = FALSE
               /\ hist = NoHist
IdleExpand  == ex_call = NoExpandCall
NoChunkCall == [called |-> FALSE]
NoSparseCall == [seed |-> 0, calls |-> <<>>]
NoFacLog == [n |-> 0, pinned |-> "none",
             last |-> [op |-> "none", arg |-> "none", before |-> "none",
                       ret |-> "none", raised |-> FALSE]]
NoAddCall == [called |-> FALSE, b |-> "qdrant", w |-> 0, d |-> 0, metadata |-> NoMeta,
              fail |-> "none", raised |-> FALSE, id0 |-> 0, deleted |-> FALSE]
IdleDoc     == chunk_call = NoChunkCall /\ sparse_call = NoSparseCall
               /\ fac_log = NoFacLog /\ add_call = NoAddCall
IdleDirect  == store_call = NoStoreCall /\ tasks = NoTasks /\ lazy = NoLazy /\ IdleDoc

InitStore ==
    /\ current_store_type \in StoreTypes
    /\ vector_store_instances = {current_store_type}
    /\ IdleStore /\ IdleRerank /\ IdleSearch /\ IdleExpand /\ IdleDirect

NextStore ==
    \/ OpAddDocument
    \/ OpEnsureCollection
    \/ OpDeleteDocument
    \/ OpDeleteWorkspace
    \/ OpSearch
    \/ OpGetStats

SpecStore == InitStore /\ [][NextStore]_vars

-----------------------------------------------------------------------------
(* C3: workspace isolation *)

ReturnedFromOwnWorkspace ==
    opLog.op = "search" =>
        \A i \in DOMAIN opLog.hits : opLog.hits[i].ws = opLog.w

NamesInjective ==
    \A b \in StoreTypes : \A w1, w2 \in 0..MaxWorkspaceId :
        NameOf(b, w1) = NameOf(b, w2) => w1 = w2

\* search(w) and get_stats(w) answer the same before and after the step, for
\* every choice of the other arguments
OtherWorkspacesUntouched ==
    \A b \in StoreTypes : \A w \in WorkspaceIds :
        (w # opLog'.w /\ tables'[b] # tables[b]) =>
            /\ \A q \in Queries, limit \in 1..MaxLimit, use_hybrid \in BOOLEAN :
                  StoreSearch(b, tables'[b], w, q, limit, ScoreZero, use_hybrid, FALSE)
                  = StoreSearch(b, tables[b], w, q, limit, ScoreZero, use_hybrid, FALSE)
            /\ GetStats(b, tables'[b], w, FALSE) = GetStats(b, tables[b], w, FALSE)

\* C3: every candidate search(w) returns was stored by add_document for w; an
\* operation on another workspace changes neither search(w) nor get_stats(w);
\* the collection/table name is an injective function of the workspace id.
C3_WorkspaceIsolation ==
    /\ [](ReturnedFromOwnWorkspace /\ NamesInjective)
    /\ [][OtherWorkspacesUntouched]_vars

\* a search that returns candidates while another workspace holds chunks too
C3_Witness ==
    /\ opLog.op = "search"
    /\ opLog.hits # <<>>
    /\ \E w2 \in WorkspaceIds \ {opLog.w} :
          /\ Exists(tables[opLog.b], NameOf(opLog.b, w2))
          /\ tables[opLog.b][NameOf(opLog.b, w2)].rows # <<>>

-----------------------------------------------------------------------------
(* vector_store/factory.py *)

\* _get_store_type_from_config: getattr(settings, 'VECTOR_STORE', 'qdrant')
ConfigStoreType == "qdrant"

\* get_vector_store(store_type); "none" = called without argument.
\* createFails: _create_store raises (only reached when nothing is cached).
\* Answers the globals afterwards, the type of the instance returned, raised.
GetVectorStore(cur, instances, store_type, createFails) ==
    LET t == IF store_type = "none"
             THEN (IF cur # "none" THEN cur ELSE ConfigStoreType)
             ELSE store_type
    IN  IF t \notin instances /\ createFails
        THEN [cur |-> cur, instances |-> instances, ret |-> "none", raised |-> TRUE]
        ELSE [cur |-> t, instances |-> instances \cup {t}, ret |-> t, raised |-> FALSE]

\* set_vector_store_type(store_type)
SetVectorStoreType(cur, instances, store_type, createFails) ==
    IF store_type \notin {"qdrant", "lancedb"}
    THEN [cur |-> cur, instances |-> instances, ret |-> "none", raised |-> TRUE]
    ELSE GetVectorStore(store_type, instances, store_type, createFails)

-----------------------------------------------------------------------------
(* reranker_service.py *)

\* RerankerService.model (property): the state after the lazy load.
\* loadFails: CrossEncoder(MODEL_NAME) raises.
LoadModel(available, loaded, model, loadFails) ==
    IF loaded THEN [loaded |-> TRUE, model |-> model]
    ELSE IF available /\ ~loadFails THEN [loaded |-> TRUE, model |-> "cross_encoder"]
    ELSE [loaded |-> TRUE, model |-> "none"]

\* Mutant: the fallback hands back every candidate
RerankFallbackWhole(candidates, top_k) == candidates

\* candidates[:top_k], the answer of rerank when nothing was scored
RerankFallback(candidates, top_k) == PySlice(candidates, top_k)

\* Mutant: the scored branch without the final [:top_k]
RerankScoredUncut(candidates, scores, top_k) ==
    LET n == Min(Len(candidates), Len(scores))
        scored_candidates ==
            [i \in 1..n |-> [rerank_score |-> scores[i]] @@ candidates[i]]
        keys == [i \in 1..n |-> <<scores[i], 1>>]
    IN  StableSortDesc(scored_candidates, keys)

\* the scored branch of rerank: copies with rerank_score, best first, top_k
RerankScored(candidates, scores, top_k) ==
    LET n == Min(Len(candidates), Len(scores))      \* zip
        scored_candidates ==
            [i \in 1..n |-> [rerank_score |-> scores[i]] @@ candidates[i]]
        keys == [i \in 1..n |-> <<scores[i], 1>>]      \* key=rerank_score
    IN  PySlice(StableSortDesc(scored_candidates, keys), top_k)

\* RerankerService.rerank.  predict: what model.predict does, [throws, scores]
\* (one score per pair).  Answers the list returned, whether an exception left
\* the call, and the model state.
Rerank(candidates, top_k, available, loaded, model, loadFails, predict) ==
    LET m == LoadModel(available, loaded, model, loadFails)
    IN  IF m.model = "none" \/ candidates = <<>>
        THEN [out |-> RerankFallback(candidates, top_k), scored |-> FALSE,
              raised |-> FALSE, loaded |-> m.loaded, model |-> m.model]
        ELSE IF predict.throws
        THEN [out |-> RerankFallback(candidates, top_k), scored |-> FALSE,
              raised |-> FALSE, loaded |-> m.loaded, model |-> m.model]
        ELSE [out |-> RerankScored(candidates, predict.scores, top_k), scored |-> TRUE,
              raised |-> FALSE, loaded |-> m.loaded, model |-> m.model]

-----------------------------------------------------------------------------
(* rag_service.py: RAGService._expand_query *)

\* str.strip() of one line: blanks removed at both ends
RECURSIVE LStrip(_)
LStrip(line) == IF line # <<>> /\ Head(line) = " " THEN LStrip(Tail(line)) ELSE line
RECURSIVE RStrip(_)
RStrip(line) ==
    IF line # <<>> /\ line[Len(line)] = " "
    THEN RStrip(SubSeq(line, 1, Len(line) - 1)) ELSE line
Strip(line) == RStrip(LStrip(line))

StartsWith(line, prefix) ==
    Len(line) >= Len(prefix) /\ SubSeq(line, 1, Len(prefix)) = prefix

\* v.startswith(('1.', '2.', '3.', '-', '*'))
LooksNumbered(v) ==
    \E prefix \in {<<"1", ".">>, <<"2", ".">>, <<"3", ".">>, <<"-">>, <<"*">>} :
        StartsWith(v, prefix)

\* variants[:3]
MaxVariants == 3

\* Mutant: the answer is the parsed variants only
ExpandQueryVariantsOnly(query, response) ==
    IF response.kind # "ok" THEN <<query>>
    ELSE PySlice(SelectSeq([i \in DOMAIN response.lines |-> Strip(response.lines[i])],
                           LAMBDA v : v # <<>> /\ ~LooksNumbered(v)), MaxVariants)

\* RAGService._expand_query.  response: what the LLM call does: kind "timeout",
\* "http_error" (raise_for_status), "malformed" (no JSON / no
\* choices[0].message.content string) or "ok" with the content's lines.
ExpandQuery(query, response) ==
    IF response.kind # "ok" THEN <<query>>
    ELSE LET stripped == [i \in DOMAIN response.lines |-> Strip(response.lines[i])]
             nonblank == SelectSeq(stripped, LAMBDA v : v # <<>>)
             kept == SelectSeq(nonblank, LAMBDA v : ~LooksNumbered(v))
             variants == PySlice(kept, MaxVariants)
         IN  <<query>> \o variants

LLMFailures == {[kind |-> k, lines |-> <<>>] : k \in {"timeout", "http_error", "malformed"}}
LLMAnswer(lines) == [kind |-> "ok", lines |-> lines]

\* all sequences over S of length at most n
SeqsUpTo(S, n) == UNION {[1..k -> S] : k \in 0..n}

-----------------------------------------------------------------------------
(* rag_service.py: RAGService.search *)

\* hash(result.content): Python's str hash, distinct for the texts of the model
HashOf(content) ==
    CASE content = "A" -> 7919 [] content = "B" -> 104729 [] OTHER -> 1299709

\* SearchResult.to_dict(): the fields of the candidate handed on
ToDict(hit) ==
    [content |-> hit.content, score |-> hit.score,
     document_id |-> hit.document_id, chunk_index |-> hit.chunk_index]

HasKey(all, key) == \E i \in DOMAIN all : all[i].key = key
IndexOfKey(all, key) == CHOOSE i \in DOMAIN all : all[i].key = key

\* Mutant: a repeated key is replaced when the score is not lower
MergeOneOnTie(all, hit) ==
    LET content_key == HashOf(hit.content)
        result_dict == ToDict(hit)
    IN  IF ~HasKey(all, content_key)
        THEN Append(all, [key |-> content_key, value |-> result_dict])
        ELSE IF ScoreGE(hit.score, all[IndexOfKey(all, content_key)].value.score)
        THEN [all EXCEPT ![IndexOfKey(all, content_key)].value = result_dict]
        ELSE all

\* body of `for result in results`: all_candidates is a dict (insertion order)
MergeOne(all, hit) ==
    LET content_key == HashOf(hit.content)
        result_dict == ToDict(hit)
    IN  IF ~HasKey(all, content_key)
        THEN Append(all, [key |-> content_key, value |-> result_dict])
        ELSE IF ScoreGT(hit.score, all[IndexOfKey(all, content_key)].value.score)
        THEN [all EXCEPT ![IndexOfKey(all, content_key)].value = result_dict]
        ELSE all

MergeResults(all, results) ==
    LET F[i \in 0..Len(results)] ==
            IF i = 0 THEN all ELSE MergeOne(F[i - 1], results[i])
    IN  F[Len(results)]

Values(all) == [i \in DOMAIN all |-> all[i].value]

\* Mutant: sorted, not truncated
InitialCandidatesUncut(all, limit) ==
    StableSortDesc(Values(all), [i \in DOMAIN all |-> all[i].value.score])

\* sorted(all_candidates.values(), key=score, reverse=True)[:limit]
InitialCandidates(all, limit) ==
    PySlice(StableSortDesc(Values(all), [i \in DOMAIN all |-> all[i].value.score]), limit)

\* Mutant: the handler lets the exception out
SearchExceptReraise == [result |-> <<>>, raised |-> TRUE]

\* except Exception: return []
SearchExcept == [result |-> <<>>, raised |-> FALSE]

\* Cross-encoder collaborator: relevance of a passage, by two scoring models
CEScore(t, content) ==
    IF t = 1 THEN (CASE content = "A" -> 1 [] content = "B" -> 2 [] OTHER -> 3)
    ELSE (CASE content = "A" -> 5 [] content = "B" -> 5 [] OTHER -> 1)

\* what model.predict(pairs) may do on these candidates
Predictions(candidates) ==
    {[throws |-> TRUE, scores |-> <<>>]} \cup
    {[throws |-> FALSE,
      scores |-> [i \in DOMAIN candidates |-> CEScore(t, candidates[i].content)]] :
        t \in {1, 2}}

\* the workspace searched, and what the two backends hold for it
SearchWorkspace == 2
Seeded(b, docs) ==
    LET T0 == EmptyTables[b]
        T1 == IF 1 \in docs
              THEN StoreAdd(b, T0, SearchWorkspace, 1, ChunksOf(1), NoMeta, 1, "none").T
              ELSE T0
    IN  IF 2 \in docs
        THEN StoreAdd(b, T1, SearchWorkspace, 2, ChunksOf(2), NoMeta, 3, "none").T
        ELSE T1

\* documents indexed while Qdrant was active, and while LanceDB was
SeedChoices ==
    {[b \in StoreTypes |-> IF b = "qdrant" THEN dq ELSE dl] :
        dq \in {{1}, {1, 2}}, dl \in {{}, {2}}}

\* lines the LLM answers with in a search call
SearchLines == {Q1, <<" ">> \o Q2, <<"1", ".", " ">> \o Q1}

SearchFrame == UNCHANGED <<storeVars, rr_call, ex_call, directVars, docVars>>

\* Mutant: the reranker is given the last variant searched
RerankQueryLastVariant(query, qs) == qs[Len(qs)]

\* the query handed to _rerank_with_cross_encoder: the parameter of search()
RerankQuery(query, qs) == query

\* entry of search(): the arguments, and (await) the query expansion
SearchStart ==
    /\ pc = "idle"
    /\ \E limit \in 1..MaxLimit, score_threshold \in Thresholds, hybrid \in BOOLEAN,
          use_reranking \in BOOLEAN, rerank_top_k \in 1..MaxLimit,
          use_query_expansion \in BOOLEAN :
        \* rerank_top_k is read only when use_reranking
        /\ ~use_reranking => rerank_top_k = 1
        /\ args' = [workspace_id |-> SearchWorkspace, query |-> Q0, limit |-> limit,
                    score_threshold |-> score_threshold, hybrid |-> hybrid,
                    use_reranking |-> use_reranking, rerank_top_k |-> rerank_top_k,
                    use_query_expansion |-> use_query_expansion]
        /\ IF use_query_expansion
           THEN \E response \in LLMFailures \cup
                        {LLMAnswer(l) : l \in SeqsUpTo(SearchLines, MaxLines)} :
                    queries' = ExpandQuery(Q0, response)
           ELSE queries' = <<Q0>>
    /\ qi' = 1
    /\ pc' = "embed"
    /\ all_candidates' = <<>>
    /\ result' = <<>>
    /\ raised' = FALSE
    /\ hist' = NoHist
    /\ UNCHANGED <<factoryVars, ce_available, rr_loaded, rr_model>>
    /\ SearchFrame

\* the except clause of search()
Abort(why) ==
    /\ result' = SearchExcept.result
    /\ raised' = SearchExcept.raised
    /\ hist' = [hist EXCEPT !.failure = why]
    /\ pc' = "done"
    /\ UNCHANGED <<args, queries, qi, all_candidates>>

\* await embedding_service.embed_text(q): returns, or raises
EmbedVariant ==
    /\ pc = "embed"
    /\ \/ /\ pc' = "search"
          /\ UNCHANGED <<args, queries, qi, all_candidates, result, raised, hist>>
       \/ Abort("embed")
    /\ UNCHANGED <<factoryVars, ce_available, rr_loaded, rr_model>>
    /\ SearchFrame

\* self.vector_store.search(...) for the variant, and the merge of its results
SearchVariant ==
    /\ pc = "search"
    /\ \E createFails \in BOOLEAN, backendFails \in BOOLEAN :
        LET g == GetVectorStore(current_store_type, vector_store_instances,
                                "none", createFails)
            results == StoreSearch(g.ret, tables[g.ret], args.workspace_id, queries[qi],
                           IF args.use_query_expansion THEN args.limit * 2 ELSE args.limit,
                           args.score_threshold, args.hybrid, backendFails)
        IN  /\ current_store_type' = g.cur
            /\ vector_store_instances' = g.instances
            /\ IF g.raised
               THEN /\ ~backendFails
                    /\ Abort("create_store")
               ELSE /\ createFails => g.ret \notin vector_store_instances
                    /\ all_candidates' = MergeResults(all_candidates, results)
                    /\ hist' = [hist EXCEPT
                                  !.retrieved = @ \o [i \in DOMAIN results |-> ToDict(results[i])],
                                  !.servedBy = Append(@, g.ret),
                                  !.storeFailed = @ \/ backendFails]
                    /\ qi' = qi + 1
                    /\ pc' = IF qi = Len(queries) THEN "finish" ELSE "embed"
                    /\ UNCHANGED <<args, queries, result, raised>>
    /\ UNCHANGED <<ce_available, rr_loaded, rr_model>>
    /\ SearchFrame

\* after the loop: sort, truncate, rerank if enabled, return
Finish ==
    /\ pc = "finish"
    /\ LET initial_candidates == InitialCandidates(all_candidates, args.limit)
       IN  IF args.use_reranking /\ ce_available /\ initial_candidates # <<>>
           THEN \E loadFails \in BOOLEAN, predict \in Predictions(initial_candidates) :
                  LET r == Rerank(initial_candidates, args.rerank_top_k, ce_available,
                                  rr_loaded, rr_model, loadFails, predict)
                  IN  /\ loadFails => ~rr_loaded
                      /\ (predict.throws /\ r.model = "none") => loadFails
                      /\ result' = r.out
                      /\ rr_loaded' = r.loaded
                      /\ rr_model' = r.model
                      /\ hist' = [hist EXCEPT !.initial = initial_candidates,
                                    !.rerank_query = RerankQuery(args.query, queries),
                                    !.rerank = IF r.scored THEN "scored"
                                               ELSE IF r.model = "none" THEN "no_model"
                                               ELSE "predict_failed"]
           ELSE /\ result' = initial_candidates
                /\ hist' = [hist EXCEPT !.initial = initial_candidates,
                              !.rerank = IF ~args.use_reranking THEN "off"
                                         ELSE IF ~ce_available THEN "unavailable"
                                         ELSE "empty"]
                /\ UNCHANGED <<rr_loaded, rr_model>>
    /\ pc' = "done"
    /\ UNCHANGED <<args, queries, qi, all_candidates, raised>>
    /\ UNCHANGED <<factoryVars, ce_available>>
    /\ SearchFrame

\* admin handler: rag_service.switch_vector_store(value), at any suspension
\* point of the search
SwitchVectorStore ==
    /\ \E store_type \in StoreTypes \cup {"bogus"}, createFails \in BOOLEAN :
        LET r == SetVectorStoreType(current_store_type, vector_store_instances,
                                    store_type, createFails)
        IN  /\ createFails => (r.raised /\ store_type \in StoreTypes)
            /\ current_store_type' = r.cur
            /\ vector_store_instances' = r.instances
    /\ UNCHANGED <<searchVars, ce_available, rr_loaded, rr_model>>
    /\ SearchFrame

InitSearch ==
    /\ IdleFactory
    /\ \E docs \in SeedChoices :
          tables = [b \in StoreTypes |-> Seeded(b, docs[b])]
    /\ nextId = 5
    /\ opLog = NoOp
    /\ ce_available \in BOOLEAN
    /\ rr_loaded = FALSE /\ rr_model = "none" /\ rr_call = NoRerankCall
    /\ IdleSearch
    /\ IdleExpand
    /\ IdleDirect

NextSearch ==
    \/ SearchStart
    \/ EmbedVariant
    \/ SearchVariant
    \/ Finish
    \/ SwitchVectorStore

SpecSearch == InitSearch /\ [][NextSearch]_vars

-----------------------------------------------------------------------------
(* Claims about RAGService.search, under SpecSearch *)

IsList(x) == DOMAIN x = 1..Len(x)

NonIncreasingScore(list) ==
    \A i \in 1..(Len(list) - 1) : ScoreGE(list[i].score, list[i + 1].score)

\* C1: search never raises to its caller: whatever the arguments and whichever
\* collaborator fails, the call ends with a list, empty when it was aborted.
C1_SearchNeverRaises ==
    pc = "done" =>
        /\ raised = FALSE
        /\ IsList(result)
        /\ hist.failure # "none" => result = <<>>

\* the embedding of a later variant failed after candidates had been retrieved
C1_Witness ==
    /\ pc = "done"
    /\ hist.failure = "embed"
    /\ hist.retrieved # <<>>
    /\ raised = FALSE

\* C2 (as claimed): with several variants, a variant whose embedding or store
\* search fails only contributes nothing: the orchestration is not aborted and
\* what the other variants retrieved is still returned.
C2_VariantFailureIsolated ==
    (/\ pc = "done"
     /\ Len(queries) > 1
     /\ hist.failure = "embed" \/ hist.storeFailed
     /\ hist.retrieved # <<>>) =>
        /\ hist.failure \in {"none", "create_store"}
        /\ hist.failure = "none" => result # <<>>

\* C4 (as claimed): within one search call every per-variant store search runs
\* against the same backend, also when the backend is switched in between.
C4_OneBackendPerSearch ==
    pc = "done" =>
        \A i, j \in DOMAIN hist.servedBy : hist.servedBy[i] = hist.servedBy[j]

\* the candidate the merge must hold for a content: among the retrieved ones
\* with that content, the first of those with the highest score
FirstBest(retrieved, content) ==
    LET same == {i \in DOMAIN retrieved : retrieved[i].content = content}
        best == {i \in same : \A j \in same : ScoreGE(retrieved[i].score, retrieved[j].score)}
    IN  retrieved[CHOOSE i \in best : \A j \in best : i <= j]

\* C5: the merged set holds exactly one candidate per retrieved content, with
\* the highest score that content was retrieved with, the first seen on a tie.
C5_Deduplication ==
    /\ \A i \in DOMAIN hist.retrieved :
          LET c == hist.retrieved[i].content
              held == {k \in DOMAIN all_candidates : all_candidates[k].value.content = c}
          IN  /\ Cardinality(held) = 1
              /\ \A k \in held : all_candidates[k].value = FirstBest(hist.retrieved, c)
    /\ \A k \in DOMAIN all_candidates :
          \E i \in DOMAIN hist.retrieved :
              hist.retrieved[i].content = all_candidates[k].value.content

\* one content came back with a higher score later, another content came back
\* twice with the same score from two documents
C5_Witness ==
    /\ pc = "done"
    /\ hist.failure = "none"
    /\ \E i, j \in DOMAIN hist.retrieved :
          /\ i < j
          /\ hist.retrieved[i].content = hist.retrieved[j].content
          /\ ScoreGT(hist.retrieved[j].score, hist.retrieved[i].score)
    /\ \E i, j \in DOMAIN hist.retrieved :
          /\ i < j
          /\ hist.retrieved[i].content = hist.retrieved[j].content
          /\ ScoreEQ(hist.retrieved[j].score, hist.retrieved[i].score)
          /\ hist.retrieved[i] # hist.retrieved[j]
          /\ hist.retrieved[i] = FirstBest(hist.retrieved, hist.retrieved[i].content)

RerankNotApplied == hist.rerank \in {"off", "unavailable", "empty"}

\* C6: when reranking is not applied, search returns at most `limit`
\* candidates in non-increasing score order, with or without query expansion.
C6_BoundedSortedWithoutRerank ==
    (pc = "done" /\ RerankNotApplied) =>
        /\ Len(result) <= args.limit
        /\ NonIncreasingScore(result)

\* an expanded search that merged more candidates than `limit` and cut them
C6_Witness ==
    /\ pc = "done"
    /\ hist.failure = "none"
    /\ RerankNotApplied
    /\ args.use_query_expansion
    /\ Len(queries) > 1
    /\ Len(all_candidates) > args.limit
    /\ Len(result) = args.limit
    /\ \E i \in DOMAIN result : \E j \in DOMAIN result :
          ScoreGT(result[i].score, result[j].score)

\* C7 (as claimed): with use_reranking on and reranking not performed (library
\* unavailable, model not loaded, scoring throws) the result is the pre-rerank
\* ordering truncated to rerank_top_k.
C7_RerankFailureTruncates ==
    (/\ pc = "done"
     /\ hist.failure = "none"
     /\ args.use_reranking
     /\ hist.rerank \in {"unavailable", "no_model", "predict_failed"}) =>
        /\ result = PySlice(hist.initial, args.rerank_top_k)
        /\ Len(result) <= args.rerank_top_k

-----------------------------------------------------------------------------
(* RerankerService.rerank called directly, on a reranker in any of its states *)

\* longest candidate list handed to rerank, largest top_k
MaxCandidates == 3

\* candidate dicts as search builds them: every chunk of the seeded workspace
RerankPool ==
    LET T == Seeded("qdrant", {1, 2})
        hits == StoreSearch("qdrant", T, SearchWorkspace, Q0, 4, ScoreZero, FALSE, FALSE)
    IN  {ToDict(hits[i]) : i \in DOMAIN hits}

\* RerankerService.model read outside rerank (RAGService.reranker): lazy load
AccessModel ==
    /\ \E loadFails \in BOOLEAN :
        LET m == LoadModel(ce_available, rr_loaded, rr_model, loadFails)
        IN  /\ loadFails => (ce_available /\ ~rr_loaded)
            /\ rr_loaded' = m.loaded
            /\ rr_model' = m.model
    /\ UNCHANGED <<factoryVars, storeVars, searchVars, ex_call, ce_available, rr_call,
                   directVars, docVars>>

\* one rerank call per behaviour: its answer depends on the arguments and on
\* the model state only
RerankCall ==
    /\ rr_call.outcome = "none"
    /\ \E candidates \in SeqsUpTo(RerankPool, MaxCandidates), top_k \in 0..MaxCandidates,
          loadFails \in BOOLEAN :
      \E predict \in Predictions(candidates) :
        LET r == Rerank(candidates, top_k, ce_available, rr_loaded, rr_model,
                        loadFails, predict)
        IN  /\ loadFails => (ce_available /\ ~rr_loaded)
            /\ predict.throws => (r.model # "none" /\ candidates # <<>>)
            /\ rr_loaded' = r.loaded
            /\ rr_model' = r.model
            /\ rr_call' = [candidates |-> candidates, top_k |-> top_k,
                           outcome |-> IF r.scored THEN "scored"
                                       ELSE IF r.model = "none" THEN "no_model"
                                       ELSE IF candidates = <<>> THEN "empty"
                                       ELSE "predict_failed",
                           out |-> r.out, raised |-> r.raised]
    /\ UNCHANGED <<factoryVars, storeVars, searchVars, ex_call, ce_available, directVars, docVars>>

InitRerank ==
    /\ IdleFactory
    /\ IdleStore
    /\ ce_available \in BOOLEAN
    /\ rr_loaded = FALSE /\ rr_model = "none" /\ rr_call = NoRerankCall
    /\ IdleSearch
    /\ IdleExpand
    /\ IdleDirect

NextRerank ==
    \/ AccessModel
    \/ RerankCall

SpecRerank == InitRerank /\ [][NextRerank]_vars

HasRerankScore(c) == "rerank_score" \in DOMAIN c

\* C8: rerank returns exactly min(top_k, len(candidates)) items; when the
\* cross-encoder scored them each item carries a rerank_score and the items
\* are in non-increasing rerank_score order.
C8_RerankTopK ==
    rr_call.outcome # "none" =>
        /\ Len(rr_call.out) = Min(rr_call.top_k, Len(rr_call.candidates))
        /\ rr_call.outcome = "scored" =>
              /\ \A i \in DOMAIN rr_call.out : HasRerankScore(rr_call.out[i])
              /\ \A i \in 1..(Len(rr_call.out) - 1) :
                    rr_call.out[i].rerank_score >= rr_call.out[i + 1].rerank_score

\* a scored call that cut the list and changed its order
C8_Witness ==
    /\ rr_call.outcome = "scored"
    /\ Len(rr_call.candidates) > rr_call.top_k
    /\ rr_call.top_k >= 2
    /\ rr_call.out[1].content # rr_call.candidates[1].content
    /\ rr_call.out[1].rerank_score > rr_call.out[2].rerank_score

\* C9: when the cross-encoder is unavailable or its scoring throws, rerank
\* returns candidates[:top_k] in input order, without rerank_score on any
\* candidate, and does not raise.
C9_RerankFallback ==
    rr_call.outcome \in {"no_model", "predict_failed"} =>
        /\ rr_call.out = PySlice(rr_call.candidates, rr_call.top_k)
        /\ \A i \in DOMAIN rr_call.out : ~HasRerankScore(rr_call.out[i])
        /\ \A i \in DOMAIN rr_call.candidates : ~HasRerankScore(rr_call.candidates[i])
        /\ rr_call.raised = FALSE

\* scoring threw on a loaded model, with more candidates than top_k
C9_Witness ==
    /\ rr_call.outcome = "predict_failed"
    /\ rr_model = "cross_encoder"
    /\ rr_call.top_k >= 1
    /\ Len(rr_call.candidates) > rr_call.top_k
    /\ rr_call.out = <<rr_call.candidates[1]>> \o SubSeq(rr_call.out, 2, Len(rr_call.out))

-----------------------------------------------------------------------------
(* RAGService._expand_query called directly *)

\* most lines in one LLM answer
MaxRespLines == 4

\* lines an LLM answer is made of
ExpandLines ==
    {<<" ">>, Q1, <<" ">> \o Q2 \o <<" ">>, <<"1", ".", "b">>, <<"-", "c">>,
     <<" ", "*">>, <<"2", "b">>}

ExpandQueries == {Q0, <<" ", "a", " ">>, <<"1", ".", "a">>}

\* one call per behaviour: _expand_query keeps no state between calls
ExpandCall ==
    /\ ~ex_call.called
    /\ \E query \in ExpandQueries,
          response \in LLMFailures \cup
                       {LLMAnswer(lines) : lines \in SeqsUpTo(ExpandLines, MaxRespLines)} :
        ex_call' = [called |-> TRUE, query |-> query, response |-> response,
                    out |-> ExpandQuery(query, response)]
    /\ UNCHANGED <<factoryVars, storeVars, rerankVars, searchVars, directVars, docVars>>

InitExpand ==
    /\ IdleFactory
    /\ IdleStore
    /\ IdleRerank
    /\ IdleSearch
    /\ IdleExpand
    /\ IdleDirect

NextExpand == ExpandCall

SpecExpand == InitExpand /\ [][NextExpand]_vars

\* C10: _expand_query returns a non-empty list whose first element is the
\* original query, followed by at most 3 alternatives, and exactly [query]
\* when the LLM call times out, fails or answers something unparsable.
C10_ExpandQueryShape ==
    ex_call.called =>
        /\ ex_call.out # <<>>
        /\ ex_call.out[1] = ex_call.query
        /\ Len(ex_call.out) <= 1 + 3
        /\ ex_call.response.kind \in {"timeout", "http_error", "malformed"} =>
              ex_call.out = <<ex_call.query>>

\* an answer of four usable lines, cut to three alternatives
C10_Witness ==
    /\ ex_call.called
    /\ ex_call.response.kind = "ok"
    /\ Len(ex_call.response.lines) >= 4
    /\ \A i \in DOMAIN ex_call.response.lines : ex_call.response.lines[i] \in {Q1, <<"2", "b">>}
    /\ Len(ex_call.out) = 4
    /\ ex_call.out[1] = ex_call.query

-----------------------------------------------------------------------------
(* VectorStore.search called directly on a backend, on storage of every kind *)

\* a Qdrant collection of the older layout: one unnamed dense vector, no
\* sparse vectors (what has_named_vectors tells apart)
LegacySeeded(docs) ==
    LET rows1 == IF 1 \in docs
                 THEN BuildRows(SearchWorkspace, 1, ChunksOf(1), NoMeta, 1) ELSE <<>>
        rows2 == IF 2 \in docs
                 THEN BuildRows(SearchWorkspace, 2, ChunksOf(2), NoMeta, 3) ELSE <<>>
    IN  WithRows(EmptyTables["qdrant"], CollectionName(SearchWorkspace), FALSE,
                 rows1 \o rows2)

\* what each backend may hold when the search arrives
QueryStorage ==
    {[b \in StoreTypes |-> IF b = "qdrant" THEN tq ELSE tl] :
        tq \in {EmptyTables["qdrant"], Seeded("qdrant", {1}), Seeded("qdrant", {2}),
                Seeded("qdrant", {1, 2}), LegacySeeded({1, 2})},
        tl \in {EmptyTables["lancedb"], Seeded("lancedb", {2}), Seeded("lancedb", {1, 2})}}

\* score_threshold arguments: negative, zero (the default), positive
QueryThresholds == {<<0 - 1, 2>>, ScoreZero, <<7, 10>>}

\* RAGService.search with query expansion and reranking off and the
\* embedding answered: one store search, merge, sort, cut
RagSearchSingle(b, T, workspace_id, query, limit, score_threshold, hybrid, backendFails) ==
    LET results == StoreSearch(b, T, workspace_id, query, limit, score_threshold,
                               hybrid, backendFails)
    IN  [result |-> InitialCandidates(MergeResults(<<>>, results), limit),
         raised |-> FALSE]

\* the layout of the collection a call addresses
KindOf(b, T, workspace_id) ==
    IF ~Exists(T, NameOf(b, workspace_id)) THEN "absent"
    ELSE IF b = "lancedb" THEN "table"
    ELSE IF T[NameOf(b, workspace_id)].named THEN "hybrid"
    ELSE "legacy"

IdsOf(points) == [i \in DOMAIN points |-> points[i].id]

QueryFrame == UNCHANGED <<factoryVars, rerankVars, searchVars, ex_call, tasks, lazy, docVars>>

\* delete_workspace of an existing collection, before the search
QueryDeleteWorkspace ==
    /\ ~store_call.called
    /\ opLog.op = "none"
    /\ \E b \in StoreTypes, w \in WorkspaceIds, fail \in BOOLEAN :
        LET r == StoreDeleteWorkspace(b, tables[b], w, fail)
        IN  /\ Exists(tables[b], NameOf(b, w))
            /\ tables' = [tables EXCEPT ![b] = r.T]
            /\ opLog' = Logged("delete_workspace", b, w, 0, r.ret, r.raised, <<>>, NoStats)
    /\ UNCHANGED <<nextId, store_call>>
    /\ QueryFrame

\* one search call; dense / sparse: the two sublists the index answered when
\* the fused path ran
QuerySearch ==
    /\ ~store_call.called
    /\ \E b \in StoreTypes, w \in WorkspaceIds, q \in Queries, limit \in 1..MaxLimit,
          score_threshold \in QueryThresholds, use_hybrid \in BOOLEAN, fail \in BOOLEAN :
        LET T == tables[b]
            kind == KindOf(b, T, w)
            fused == b = "qdrant" /\ use_hybrid /\ kind = "hybrid" /\ ~fail
            rows == IF kind = "absent" THEN <<>> ELSE T[NameOf(b, w)].rows
            rag == RagSearchSingle(b, T, w, q, limit, score_threshold, use_hybrid, fail)
        IN  store_call' =
                [called |-> TRUE, b |-> b, w |-> w, q |-> q, limit |-> limit,
                 score_threshold |-> score_threshold, use_hybrid |-> use_hybrid,
                 failed |-> fail, kind |-> kind,
                 dense |-> IF fused
                           THEN IdsOf(DenseQuery(rows, q, limit * 2, FALSE, ScoreZero))
                           ELSE <<>>,
                 sparse |-> IF fused THEN IdsOf(SparseQuery(rows, q, limit * 2)) ELSE <<>>,
                 hits |-> StoreSearch(b, T, w, q, limit, score_threshold, use_hybrid, fail),
                 rag |-> rag.result, rag_raised |-> rag.raised]
    /\ UNCHANGED storeVars
    /\ QueryFrame

InitQuery ==
    /\ IdleFactory
    /\ tables \in QueryStorage
    /\ nextId = 5
    /\ opLog = NoOp
    /\ IdleRerank
    /\ IdleSearch
    /\ IdleExpand
    /\ IdleDirect

NextQuery ==
    \/ QueryDeleteWorkspace
    \/ QuerySearch

SpecQuery == InitQuery /\ [][NextQuery]_vars

FusedPath ==
    /\ store_call.called
    /\ store_call.b = "qdrant"
    /\ store_call.use_hybrid
    /\ store_call.kind = "hybrid"
    /\ ~store_call.failed

\* 1/(60 + r + 1) for the 0-based rank r of id in the sublist, 0 if absent
RankShare(sub, id) ==
    IF \E k \in DOMAIN sub : sub[k] = id
    THEN <<1, 60 + ((CHOOSE k \in DOMAIN sub : sub[k] = id) - 1) + 1>>
    ELSE <<0, 1>>

\* C11: hybrid fusion: a point only in the dense sublist at 0-based rank r
\* scores exactly 1/(60+r+1), a point in both sublists at ranks r1, r2 scores
\* 1/(60+r1+1) + 1/(60+r2+1), and nothing else is added.
C11_ReciprocalRankFusion ==
    FusedPath =>
        \A i \in DOMAIN store_call.hits :
            LET id == store_call.hits[i].id
            IN  /\ \/ \E k \in DOMAIN store_call.dense : store_call.dense[k] = id
                   \/ \E k \in DOMAIN store_call.sparse : store_call.sparse[k] = id
                /\ ScoreEQ(store_call.hits[i].score,
                           ScoreAdd(RankShare(store_call.dense, id),
                                    RankShare(store_call.sparse, id)))

\* a fused answer with a dense-only point at a rank > 0 and a point that is in
\* both sublists
C11_Witness ==
    /\ FusedPath
    /\ \E i \in DOMAIN store_call.hits :
          /\ RankShare(store_call.sparse, store_call.hits[i].id) = <<0, 1>>
          /\ \E k \in DOMAIN store_call.dense :
                k > 1 /\ store_call.dense[k] = store_call.hits[i].id
    /\ \E i \in DOMAIN store_call.hits :
          \E k1 \in DOMAIN store_call.dense, k2 \in DOMAIN store_call.sparse :
              /\ store_call.dense[k1] = store_call.hits[i].id
              /\ store_call.sparse[k2] = store_call.hits[i].id

\* C12: search on either backend, dense or hybrid, returns at most `limit`
\* results in non-increasing order of the returned score.
C12_AtMostLimitBestFirst ==
    store_call.called =>
        /\ Len(store_call.hits) <= store_call.limit
        /\ NonIncreasingScore(store_call.hits)

\* a fused search that had more points than `limit` and returned `limit` of
\* them with different scores
C12_Witness ==
    /\ FusedPath
    /\ store_call.limit >= 2
    /\ Len(store_call.dense) > store_call.limit
    /\ Len(store_call.hits) = store_call.limit
    /\ ScoreGT(store_call.hits[1].score, store_call.hits[2].score)

DensePath == store_call.called /\ ~FusedPath

\* C13 (as claimed): every score of a dense-only search lies in [0,1], on
\* both backends.
C13_DenseScoresInUnitInterval ==
    DensePath =>
        \A i \in DOMAIN store_call.hits :
            /\ ScoreGE(store_call.hits[i].score, <<0, 1>>)
            /\ ScoreGE(<<1, 1>>, store_call.hits[i].score)

\* C14 (as claimed): in dense-only search every returned candidate has
\* score >= score_threshold, for zero and negative thresholds too.
C14_DenseThresholdRespected ==
    DensePath =>
        \A i \in DOMAIN store_call.hits :
            ScoreGE(store_call.hits[i].score, store_call.score_threshold)

LegacyHybridCall ==
    /\ store_call.called
    /\ store_call.b = "qdrant"
    /\ store_call.use_hybrid
    /\ store_call.kind = "legacy"
    /\ ~store_call.failed

HoldsWorkspace(T, w) ==
    \E n \in DOMAIN T : \E i \in DOMAIN T[n].rows : T[n].rows[i].ws = w

\* C16: searching a workspace whose collection does not exist (never created
\* or dropped) returns [] without raising, on both backends and through
\* RAGService.search, and creates no collection.
C16_SearchOfAbsentCollection ==
    (store_call.called /\ ~HoldsWorkspace(tables[store_call.b], store_call.w)) =>
        /\ store_call.kind = "absent"
        /\ store_call.hits = <<>>
        /\ store_call.rag = <<>>
        /\ store_call.rag_raised = FALSE
        /\ ~Exists(tables[store_call.b], NameOf(store_call.b, store_call.w))

\* the search of a workspace whose collection delete_workspace had dropped
C16_Witness ==
    /\ store_call.called
    /\ store_call.kind = "absent"
    /\ ~store_call.failed
    /\ opLog.op = "delete_workspace"
    /\ opLog.b = store_call.b
    /\ opLog.w = store_call.w
    /\ store_call.hits = <<>>
    /\ store_call.rag = <<>>

-----------------------------------------------------------------------------
(* Claims about deletion, under SpecStore *)

\* the step is a delete_document call that answered success
DeleteDocumentSucceeds ==
    /\ opLog'.n = opLog.n + 1
    /\ opLog'.op = "delete_document"
    /\ opLog'.ret = TRUE

\* what such a step does to the storage of its backend
DeleteDocumentEffect ==
    DeleteDocumentSucceeds =>
        LET b == opLog'.b
            name == NameOf(b, opLog'.w)
        IN  IF Exists(tables[b], name)
            THEN /\ DOMAIN tables'[b] = DOMAIN tables[b]
                 /\ \A n \in DOMAIN tables[b] \ {name} : tables'[b][n] = tables[b][n]
                 /\ \A i \in DOMAIN tables'[b][name].rows :
                       tables'[b][name].rows[i].document_id # opLog'.d
                 /\ tables'[b][name].rows =
                       SelectSeq(tables[b][name].rows,
                                 LAMBDA r : r.document_id # opLog'.d)
            ELSE tables' = tables

C18_DeleteWorkspaceDrops ==
    (opLog.op = "delete_workspace" /\ opLog.ret = TRUE) =>
        /\ ~Exists(tables[opLog.b], NameOf(opLog.b, opLog.w))
        /\ GetStats(opLog.b, tables[opLog.b], opLog.w, FALSE) = VectorStoreStats(0, 0)
        /\ \A q \in Queries :
              StoreSearch(opLog.b, tables[opLog.b], opLog.w, q, 1, ScoreZero,
                          FALSE, FALSE) = <<>>

-----------------------------------------------------------------------------
(* Concurrent ensure_collection / add_document coroutines on one backend.   *)
(* A coroutine runs without interruption between two awaits that suspend:  *)
(* in QdrantVectorStore.ensure_collection the only such await is the test  *)
(* embedding, between the existence check and create_collection.  The      *)
(* LanceDB methods hold no await at all.                                    *)

\* coroutines in flight
MaxTasks == 2

IdleTask == [op |-> "none", w |-> 0, d |-> 0, pc |-> "idle", raised |-> FALSE,
             ret |-> FALSE, created |-> FALSE]

\* client.create_collection: the server rejects a name that exists
CreateCollection(T, collection_name) ==
    IF Exists(T, collection_name)
    THEN [T |-> T, ret |-> FALSE, raised |-> TRUE]
    ELSE [T |-> WithRows(T, collection_name, TRUE, <<>>), ret |-> FALSE, raised |-> FALSE]

\* client.upsert of the points of one add_document call
Upsert(T, workspace_id, document_id, id0) ==
    WithRows(T, CollectionName(workspace_id), TRUE,
             BuildRows(workspace_id, document_id, ChunksOf(document_id), NoMeta, id0))

EnsureFrame ==
    UNCHANGED <<factoryVars, opLog, rerankVars, searchVars, ex_call, store_call, lazy, docVars>>

\* a coroutine starts and runs up to its first suspension, or to its end
TaskStart ==
    \E i \in DOMAIN tasks, op \in {"ensure", "add"}, w \in WorkspaceIds, d \in DocIds :
        LET b == Active
            T == tables[b]
            started == [IdleTask EXCEPT !.op = op, !.w = w, !.d = d]
        IN  /\ tasks[i].pc = "idle"
            /\ IF b = "lancedb"
               THEN LET r == IF op = "ensure" THEN LanceEnsure(T, w, FALSE)
                             ELSE LanceAdd(T, w, d, ChunksOf(d), NoMeta, nextId, "none")
                    IN  /\ tables' = [tables EXCEPT ![b] = r.T]
                        /\ nextId' = IF op = "add" THEN nextId + Len(ChunksOf(d)) ELSE nextId
                        /\ tasks' = [tasks EXCEPT ![i] =
                                        [started EXCEPT !.pc = "done", !.ret = r.ret,
                                            !.created = op = "add" /\ ~Exists(T, TableName(w))]]
               ELSE IF Exists(T, CollectionName(w))
               THEN /\ tables' = IF op = "add"
                                 THEN [tables EXCEPT ![b] = Upsert(T, w, d, nextId)]
                                 ELSE tables
                    /\ nextId' = IF op = "add" THEN nextId + Len(ChunksOf(d)) ELSE nextId
                    /\ tasks' = [tasks EXCEPT ![i] =
                                    [started EXCEPT !.pc = "done", !.ret = op = "add"]]
               ELSE /\ tasks' = [tasks EXCEPT ![i] = [started EXCEPT !.pc = "embedding"]]
                    /\ UNCHANGED <<tables, nextId>>
            /\ EnsureFrame

\* the test embedding came back: create_collection, then the upsert of add
TaskCreate ==
    \E i \in DOMAIN tasks :
        LET b == Active
            t == tasks[i]
            c == CreateCollection(tables[b], CollectionName(t.w))
        IN  /\ t.pc = "embedding"
            /\ IF c.raised
               THEN /\ tasks' = [tasks EXCEPT ![i] = [t EXCEPT !.pc = "done", !.raised = TRUE]]
                    /\ UNCHANGED <<tables, nextId>>
               ELSE /\ tables' = IF t.op = "add"
                                 THEN [tables EXCEPT ![b] = Upsert(c.T, t.w, t.d, nextId)]
                                 ELSE [tables EXCEPT ![b] = c.T]
                    /\ nextId' = IF t.op = "add" THEN nextId + Len(ChunksOf(t.d)) ELSE nextId
                    /\ tasks' = [tasks EXCEPT ![i] =
                                    [t EXCEPT !.pc = "done", !.ret = t.op = "add",
                                              !.created = TRUE]]
            /\ EnsureFrame

InitEnsure ==
    /\ current_store_type \in StoreTypes
    /\ vector_store_instances = {current_store_type}
    /\ IdleStore
    /\ IdleRerank
    /\ IdleSearch
    /\ IdleExpand
    /\ store_call = NoStoreCall
    /\ tasks = [i \in 1..MaxTasks |-> IdleTask]
    /\ lazy = NoLazy
    /\ IdleDoc

NextEnsure ==
    \/ TaskStart
    \/ TaskCreate

SpecEnsure == InitEnsure /\ [][NextEnsure]_vars

\* C19 (as claimed): ensure_collection(w) creates the storage if absent and is
\* idempotent: after it returns the collection for w exists, and a further
\* ensure_collection / add_document for the same w, afterwards or
\* concurrently, creates nothing more and does not fail.
C19_EnsureIdempotent ==
    /\ \A i \in DOMAIN tasks :
          tasks[i].pc = "done" =>
              /\ tasks[i].raised = FALSE
              /\ tasks[i].op = "ensure" =>
                    Exists(tables[Active], NameOf(Active, tasks[i].w))
    /\ \A i, j \in DOMAIN tasks :
          (tasks[i].created /\ tasks[j].created /\ tasks[i].w = tasks[j].w) => i = j

\* the race alone: no coroutine ends with an exception
EnsureNeverRaises == \A i \in DOMAIN tasks : tasks[i].raised = FALSE

-----------------------------------------------------------------------------
(* The lazily initialised shared resources: RerankerService.model,          *)
(* LanceDBVectorStore.db and the instance cache of get_vector_store.  Each  *)
(* is a synchronous property or function with no lock; callers are          *)
(* coroutines of one event loop, which are interleaved only at an await.    *)

\* callers of the lazy resources
MaxCallers == 2

Resources == {"model", "db", "store"}

\* with an await between the test and the assignment a second caller could
\* run in between
AwaitInsideInitAssumed == TRUE

\* the three initialisers contain no await
AwaitInsideInit == FALSE

IdleCaller == [r |-> "none", pc |-> "idle", got |-> "none", overlapped |-> FALSE]

NoResource == [flag |-> FALSE, inst |-> FALSE, built |-> 0, failed |-> 0]

\* the test at the head of the initialiser: `not self._loaded`,
\* `self._db is None`, `store_type not in _vector_store_instances`
NeedsInit(res) == ~res.flag

\* what the initialiser does before constructing: only the reranker marks
\* itself loaded first
BeforeConstruct(r, res) ==
    IF r = "model" THEN [res EXCEPT !.flag = TRUE] ELSE res

\* the construction and the assignment of its result
Construct(r, res, fails) ==
    IF fails
    THEN [res EXCEPT !.failed = Min(@ + 1, MaxCallers)]
    ELSE [res EXCEPT !.flag = TRUE, !.inst = TRUE, !.built = Min(@ + 1, MaxCallers)]

\* what the caller gets: the reranker swallows the failure and answers None,
\* the other two let the exception through
Outcome(r, res, fails) ==
    IF r = "model" THEN (IF res.inst THEN "instance" ELSE "absent")
    ELSE IF fails THEN "raised"
    ELSE "instance"

LazyFrame ==
    UNCHANGED <<factoryVars, storeVars, opLog, rerankVars, searchVars, ex_call,
                store_call, tasks, docVars>>

\* a coroutine that will read the resource is scheduled
Arrive ==
    \E i \in DOMAIN lazy.callers, r \in Resources :
        /\ lazy.callers[i].pc = "idle"
        /\ lazy' = [lazy EXCEPT !.callers[i] =
                       [IdleCaller EXCEPT !.r = r, !.pc = "arrived",
                           !.overlapped =
                               \E j \in DOMAIN lazy.callers :
                                   /\ j # i
                                   /\ lazy.callers[j].r = r
                                   /\ lazy.callers[j].pc \in {"arrived", "constructing"}]]
        /\ LazyFrame

\* the event loop runs a caller up to its next suspension
Access ==
    \E i \in DOMAIN lazy.callers, fails \in BOOLEAN :
        LET c == lazy.callers[i]
            res == lazy.res[c.r]
        IN  /\ c.pc \in {"arrived", "constructing"}
            /\ IF c.pc = "arrived" /\ ~NeedsInit(res)
               THEN /\ ~fails
                    /\ lazy' = [lazy EXCEPT !.callers[i] =
                                   [c EXCEPT !.pc = "done",
                                             !.got = Outcome(c.r, res, FALSE)]]
               ELSE IF c.pc = "arrived" /\ AwaitInsideInit
               THEN /\ ~fails
                    /\ lazy' = [lazy EXCEPT !.res[c.r] = BeforeConstruct(c.r, res),
                                            !.callers[i] = [c EXCEPT !.pc = "constructing"]]
               ELSE LET after == Construct(c.r, BeforeConstruct(c.r, res), fails)
                    IN  lazy' = [lazy EXCEPT !.res[c.r] = after,
                                             !.callers[i] =
                                                 [c EXCEPT !.pc = "done",
                                                           !.got = Outcome(c.r, after, fails)]]
        /\ LazyFrame

InitLazy ==
    /\ IdleFactory
    /\ IdleStore
    /\ IdleRerank
    /\ IdleSearch
    /\ IdleExpand
    /\ store_call = NoStoreCall
    /\ tasks = NoTasks
    /\ lazy = [res |-> [r \in Resources |-> NoResource],
               callers |-> [i \in 1..MaxCallers |-> IdleCaller]]
    /\ IdleDoc

NextLazy ==
    \/ Arrive
    \/ Access

SpecLazy == InitLazy /\ [][NextLazy]_vars

\* C20: each lazily initialised shared resource is constructed at most once
\* however its callers are interleaved, and a caller never goes on without the
\* resource unless a construction of it has failed: a caller that arrives
\* while another is still due to initialise it gets the ready instance.
C20_LazyInitOnce ==
    /\ \A r \in Resources : lazy.res[r].built <= 1
    /\ \A i \in DOMAIN lazy.callers :
          LET c == lazy.callers[i]
          IN  c.pc = "done" =>
                  /\ c.got \in {"instance", "absent", "raised"}
                  /\ c.got = "instance" => lazy.res[c.r].inst
                  /\ c.got # "instance" => lazy.res[c.r].failed > 0

\* two callers overlap on one resource, both end with the one instance
C20_Witness ==
    \E i, j \in DOMAIN lazy.callers :
        /\ i # j
        /\ lazy.callers[i].r = lazy.callers[j].r
        /\ lazy.callers[i].pc = "done" /\ lazy.callers[j].pc = "done"
        /\ lazy.callers[j].overlapped
        /\ lazy.callers[i].got = "instance" /\ lazy.callers[j].got = "instance"
        /\ lazy.res[lazy.callers[i].r].built = 1

-----------------------------------------------------------------------------
(* document_service.py: DocumentService.chunk_text.  A text is the sequence *)
(* of its characters; len() is Len.                                         *)

NL == "\n"

IsSpace(c) == c \in {" ", NL}

\* str.strip()
StripWs(s) ==
    IF \A i \in DOMAIN s : IsSpace(s[i]) THEN <<>>
    ELSE LET first == CHOOSE i \in DOMAIN s :
                          ~IsSpace(s[i]) /\ \A j \in 1..(i - 1) : IsSpace(s[j])
             last  == CHOOSE i \in DOMAIN s :
                          ~IsSpace(s[i]) /\ \A j \in (i + 1)..Len(s) : IsSpace(s[j])
         IN  SubSeq(s, first, last)

\* s[i:].startswith(pat)
MatchAt(s, i, pat) ==
    /\ i >= 1
    /\ i + Len(pat) - 1 <= Len(s)
    /\ \A k \in DOMAIN pat : s[i + k - 1] = pat[k]

\* least element of a non-empty set of positions
First(S) == CHOOSE i \in S : \A j \in S : i <= j

\* the pieces of s from pos on, cut at the leftmost non-overlapping matches of
\* a delimiter of length dl that starts at a position of cuts
RECURSIVE SplitFrom(_, _, _, _)
SplitFrom(s, pos, cuts, dl) ==
    LET ahead == {c \in cuts : c >= pos}
    IN  IF ahead = {} THEN <<SubSeq(s, pos, Len(s))>>
        ELSE <<SubSeq(s, pos, First(ahead) - 1)>>
                 \o SplitFrom(s, First(ahead) + dl, cuts, dl)

\* re.split(r'\n(?=## )', text) and re.split(r'\n(?=### )', section)
SplitHeaders(s, marker) ==
    SplitFrom(s, 1, {i \in DOMAIN s : s[i] = NL /\ MatchAt(s, i + 1, marker)}, 1)

\* str.split('\n\n')
SplitParagraphs(s) ==
    SplitFrom(s, 1, {i \in DOMAIN s : MatchAt(s, i, <<NL, NL>>)}, 2)

\* position of the first newline at or after i, 0 if there is none
LineEnd(s, i) ==
    LET nls == {j \in i..Len(s) : s[j] = NL}
    IN  IF nls = {} THEN 0 ELSE First(nls)

\* \|[^\n]+\|\n matches at i: a pipe, at least one character, and a pipe
\* right before the newline that ends the line
RowAt(s, i) ==
    /\ i \in DOMAIN s
    /\ s[i] = "|"
    /\ LineEnd(s, i) >= i + 3
    /\ s[LineEnd(s, i) - 1] = "|"

\* last position of the match of table_pattern that starts at i: the rows
\* that follow start at the head of the next line (the optional separator row
\* is itself of the shape of a row)
RECURSIVE TableEnd(_, _)
TableEnd(s, i) ==
    IF RowAt(s, LineEnd(s, i) + 1) THEN TableEnd(s, LineEnd(s, i) + 1)
    ELSE LineEnd(s, i)

\* re.split(table_pattern, text): text, table, text, table, ..., text
RECURSIVE SplitTables(_, _)
SplitTables(s, pos) ==
    LET starts == {i \in pos..Len(s) : RowAt(s, i)}
    IN  IF starts = {} THEN <<SubSeq(s, pos, Len(s))>>
        ELSE <<SubSeq(s, pos, First(starts) - 1),
               SubSeq(s, First(starts), TableEnd(s, First(starts)))>>
                 \o SplitTables(s, TableEnd(s, First(starts)) + 1)

\* str.split(): the words between runs of whitespace
RECURSIVE WordsFrom(_, _)
WordsFrom(s, pos) ==
    LET starts == {i \in pos..Len(s) : ~IsSpace(s[i])}
    IN  IF starts = {} THEN <<>>
        ELSE LET b == First(starts)
                 stops == {j \in b..Len(s) : IsSpace(s[j])}
                 e == IF stops = {} THEN Len(s) + 1 ELSE First(stops)
             IN  <<SubSeq(s, b, e - 1)>> \o WordsFrom(s, e)

Words(s) == WordsFrom(s, 1)

\* ' '.join(words)
RECURSIVE JoinWords(_)
JoinWords(words) ==
    IF words = <<>> THEN <<>>
    ELSE IF Len(words) = 1 THEN words[1]
    ELSE words[1] \o <<" ">> \o JoinWords(Tail(words))

\* Python's lst[n:] for n < 0
PyTail(lst, n) == SubSeq(lst, Max(Len(lst) + n, 0) + 1, Len(lst))

\* chunks[-1].split()[-overlap//10:]: the unary minus binds first, and // floors
PrevWords(chunk, overlap) == PyTail(Words(chunk), (0 - overlap) \div 10)

\* chunks.append(current_chunk.strip()) under `if current_chunk.strip()`
Flush(st) ==
    IF StripWs(st.current) # <<>>
    THEN [st EXCEPT !.chunks = Append(@, StripWs(st.current))]
    ELSE st

\* the is_table branch: len(current_chunk) + len(part) <= chunk_size * 1.5
TablePart(st, part, chunk_size) ==
    IF 2 * (Len(st.current) + Len(part)) <= 3 * chunk_size
    THEN [st EXCEPT !.current = @ \o part]
    ELSE [Flush(st) EXCEPT !.current = part]

\* one paragraph of a text part.  carried records each overlap prefix with the
\* chunk it was taken from (bookkeeping, not program state)
Paragraph(st, para, chunk_size, overlap) ==
    IF Len(st.current) + Len(para) <= chunk_size
    THEN [st EXCEPT !.current =
             @ \o (IF @ # <<>> THEN <<NL, NL>> ELSE <<>>) \o para]
    ELSE LET f == Flush(st)
         IN  IF f.chunks # <<>> /\ overlap > 0
             THEN LET prev == f.chunks[Len(f.chunks)]
                      prev_words == PrevWords(prev, overlap)
                  IN  [f EXCEPT !.current = JoinWords(prev_words) \o <<NL, NL>> \o para,
                                !.carried = Append(@, [words |-> prev_words,
                                                       n |-> Len(prev_words)])]
             ELSE [f EXCEPT !.current = para]

RECURSIVE Paragraphs(_, _, _, _)
Paragraphs(st, paras, chunk_size, overlap) ==
    IF paras = <<>> THEN st
    ELSE Paragraphs(Paragraph(st, Head(paras), chunk_size, overlap), Tail(paras),
                    chunk_size, overlap)

\* part.strip().startswith('|') and '|' in part
IsTable(part) == MatchAt(StripWs(part), 1, <<"|">>)

RECURSIVE Parts(_, _, _, _)
Parts(st, parts, chunk_size, overlap) ==
    IF parts = <<>> THEN st
    ELSE LET part == Head(parts)
             next == IF StripWs(part) = <<>> THEN st
                     ELSE IF IsTable(part) THEN TablePart(st, part, chunk_size)
                     ELSE Paragraphs(st, SplitParagraphs(part), chunk_size, overlap)
         IN  Parts(next, Tail(parts), chunk_size, overlap)

\* DocumentService._split_preserving_tables
SplitPreservingTables(text, chunk_size, overlap) ==
    LET st == Parts([chunks |-> <<>>, current |-> <<>>, carried |-> <<>>],
                    SplitTables(text, 1), chunk_size, overlap)
    IN  [chunks |-> Flush(st).chunks, carried |-> st.carried]

\* the loop over the ### subsections of one oversized section
RECURSIVE Subsections(_, _, _, _)
Subsections(acc, subs, chunk_size, overlap) ==
    IF subs = <<>> THEN acc
    ELSE LET subsection == Head(subs)
             next ==
                 IF Len(subsection) <= chunk_size
                 THEN IF StripWs(subsection) # <<>>
                      THEN [acc EXCEPT !.chunks = Append(@, StripWs(subsection))]
                      ELSE acc
                 ELSE LET sub == SplitPreservingTables(subsection, chunk_size, overlap)
                      IN  [chunks |-> acc.chunks \o sub.chunks,
                           carried |-> acc.carried \o sub.carried]
         IN  Subsections(next, Tail(subs), chunk_size, overlap)

\* the loop over the ## sections
RECURSIVE Sections(_, _, _, _)
Sections(acc, secs, chunk_size, overlap) ==
    IF secs = <<>> THEN acc
    ELSE LET section == Head(secs)
             next ==
                 IF Len(section) <= chunk_size
                 THEN IF StripWs(section) # <<>>
                      THEN [acc EXCEPT !.chunks = Append(@, StripWs(section))]
                      ELSE acc
                 ELSE Subsections(acc, SplitHeaders(section, <<"#", "#", "#", " ">>),
                                  chunk_size, overlap)
         IN  Sections(next, Tail(secs), chunk_size, overlap)

\* chunks shorter than this are filtered out of the answer
TinyChunk == 50

\* DocumentService.chunk_text
ChunkText(text, chunk_size, overlap) ==
    IF Len(text) <= chunk_size THEN [chunks |-> <<text>>, carried |-> <<>>]
    ELSE LET all == Sections([chunks |-> <<>>, carried |-> <<>>],
                             SplitHeaders(text, <<"#", "#", " ">>), chunk_size, overlap)
         IN  [chunks |-> SelectSeq(all.chunks, LAMBDA c : c # <<>> /\ Len(c) > TinyChunk),
              carried |-> all.carried]

(* One chunk_text call on a text put together from a few pieces. *)

\* most pieces a text is made of
MaxPieces == 3

Rep(c, n) == [i \in 1..n |-> c]

RECURSIVE Concat(_)
Concat(pieces) == IF pieces = <<>> THEN <<>> ELSE Head(pieces) \o Concat(Tail(pieces))

\* a paragraph of seven words, a paragraph of one long word, a paragraph
\* break, two table rows, a table row with no newline after it, two headers
ChunkPieces ==
    {JoinWords([i \in 1..7 |-> Rep("w", 9)]),
     Rep("x", 100),
     <<NL, NL>>,
     <<"|">> \o Rep("a", 40) \o <<"|", NL>>,
     <<"|">> \o Rep("b", 40) \o <<"|", NL>>,
     <<"|">> \o Rep("c", 60) \o <<"|">>,
     <<NL, "#", "#", " ", "h">>,
     <<NL, "#", "#", "#", " ", "s">>}

\* "# A\n" + "x" * 1400
ExampleText == <<"#", " ", "A", NL>> \o Rep("x", 1400)

ChunkInputs ==
    {[text |-> Concat(ps), chunk_size |-> 60, overlap |-> ov] :
         ps \in SeqsUpTo(ChunkPieces, MaxPieces), ov \in {0, 5, 10, 15}}
    \cup {[text |-> ExampleText, chunk_size |-> 1000, overlap |-> 100]}

ChunkFrame ==
    UNCHANGED <<factoryVars, storeVars, rerankVars, searchVars, ex_call, directVars,
                sparse_call, fac_log, add_call>>

\* document_service.chunk_text(text, chunk_size, overlap)
ChunkCall ==
    /\ ~chunk_call.called
    /\ \E in \in ChunkInputs :
          LET out == ChunkText(in.text, in.chunk_size, in.overlap)
          IN  chunk_call' = [called |-> TRUE, text |-> in.text,
                             chunk_size |-> in.chunk_size, overlap |-> in.overlap,
                             chunks |-> out.chunks, carried |-> out.carried]
    /\ ChunkFrame

InitChunk ==
    /\ IdleFactory
    /\ IdleStore
    /\ IdleRerank
    /\ IdleSearch
    /\ IdleExpand
    /\ IdleDirect

NextChunk == ChunkCall

SpecChunk == InitChunk /\ [][NextChunk]_vars

(* Claims about chunk_text *)

\* the lines of a text
Lines(text) == SplitFrom(text, 1, {i \in DOMAIN text : text[i] = NL}, 1)

\* a pipe-delimited line: it starts with a pipe and holds another one
IsRowLine(line) == MatchAt(line, 1, <<"|">>) /\ \E k \in 2..Len(line) : line[k] = "|"

\* lines a and b of the text are rows of one contiguous table block
SameBlock(lines, a, b) ==
    a < b /\ \A k \in a..b : IsRowLine(lines[k])

\* r in c
Contains(c, r) == \E i \in 1..(Len(c) - Len(r) + 1) : MatchAt(c, i, r)

InSomeChunk(r) == \E i \in DOMAIN chunk_call.chunks : Contains(chunk_call.chunks[i], r)

\* C21 (as claimed): two rows of one contiguous pipe-delimited table block
\* that both reach the output are together in one chunk: the block is never
\* divided between two chunks.
C21_TableNeverSplit ==
    chunk_call.called =>
        LET lines == Lines(chunk_call.text)
        IN  \A a, b \in DOMAIN lines :
                (SameBlock(lines, a, b) /\ InSomeChunk(lines[a]) /\ InSomeChunk(lines[b]))
                    => \E i \in DOMAIN chunk_call.chunks :
                           /\ Contains(chunk_call.chunks[i], lines[a])
                           /\ Contains(chunk_call.chunks[i], lines[b])

\* C22 (as claimed): no chunk chunk_text returns is longer than
\* 1.5 x chunk_size.
C22_ChunkLengthBounded ==
    chunk_call.called =>
        \A i \in DOMAIN chunk_call.chunks :
            2 * Len(chunk_call.chunks[i]) <= 3 * chunk_call.chunk_size

\* C23 (as claimed): chunk_text of the empty text returns no chunk.
C23_EmptyInputEmptyOutput ==
    (chunk_call.called /\ chunk_call.text = <<>>) => chunk_call.chunks = <<>>

\* C24 (as claimed): chunk_text("# A\n" + "x"*1400, 1000, 100) returns exactly
\* two chunks, neither of them empty.
C24_ExampleTwoChunks ==
    (chunk_call.called /\ chunk_call.text = ExampleText
         /\ chunk_call.chunk_size = 1000 /\ chunk_call.overlap = 100)
        => /\ Len(chunk_call.chunks) = 2
           /\ \A i \in DOMAIN chunk_call.chunks : chunk_call.chunks[i] # <<>>

\* C26 (as claimed): the prefix a new chunk takes over from the previous one
\* is at most overlap // 10 words, and nothing is taken over when overlap = 0.
C26_OverlapWords ==
    chunk_call.called =>
        /\ \A k \in DOMAIN chunk_call.carried :
               chunk_call.carried[k].n <= chunk_call.overlap \div 10
        /\ chunk_call.overlap = 0 => chunk_call.carried = <<>>

-----------------------------------------------------------------------------
(* Reranking inside RAGService.search (specification SpecSearch) *)

WithoutRerankScore(c) == [k \in (DOMAIN c) \ {"rerank_score"} |-> c[k]]

\* C25: with use_reranking, the cross-encoder library present and a non-empty
\* merged list, search returns what the reranker makes of the score-sorted
\* list already cut to `limit`, asked with the original query: the result has
\* min(rerank_top_k, number of cut candidates) items, each one of them.
C25_RerankInSearch ==
    (pc = "done" /\ hist.failure = "none" /\ args.use_reranking /\ ce_available
        /\ all_candidates # <<>>) =>
        /\ hist.initial = InitialCandidates(all_candidates, args.limit)
        /\ hist.rerank \in {"scored", "no_model", "predict_failed"}
        /\ hist.rerank_query = args.query
        /\ Len(result) = Min(args.rerank_top_k, Len(hist.initial))
        /\ \A i \in DOMAIN result :
              \E j \in DOMAIN hist.initial : WithoutRerankScore(result[i]) = hist.initial[j]
        /\ hist.rerank = "scored" =>
              /\ \A i \in DOMAIN result : HasRerankScore(result[i])
              /\ \A i \in 1..(Len(result) - 1) :
                    result[i].rerank_score >= result[i + 1].rerank_score

\* an expanded search whose merged list was cut to limit, scored, and cut
\* again to rerank_top_k
C25_Witness ==
    /\ pc = "done"
    /\ hist.failure = "none"
    /\ args.use_reranking
    /\ ce_available
    /\ hist.rerank = "scored"
    /\ Len(queries) > 1
    /\ queries[Len(queries)] # args.query
    /\ Len(all_candidates) > args.limit
    /\ Len(hist.initial) > args.rerank_top_k
    /\ Len(result) = args.rerank_top_k

-----------------------------------------------------------------------------
(* qdrant_store.py: QdrantVectorStore._text_to_sparse.  hash() of a str is   *)
(* salted with a seed drawn when the interpreter starts (no PYTHONHASHSEED is *)
(* set anywhere in the repository), so it is a function of the process run   *)
(* and the word.                                                             *)

\* _text_to_sparse calls in one behaviour
MaxSparseCalls == 2

\* the salts of three process runs
HashSeeds == {0, 1, 2}

\* str.lower() on the letters of the model
Lower(c) == CASE c = "A" -> "a" [] c = "B" -> "b" [] OTHER -> c

\* str.isalnum()
IsAlnum(c) == c \in {"a", "b", "A", "B", "1"}

Code(c) == CASE c = "a" -> 97 [] c = "b" -> 98 [] c = "1" -> 49 [] OTHER -> 63

\* hash(word) in the run salted with seed: a salted string hash standing for
\* SipHash, non-negative, in a space of 24 bits
RECURSIVE PyHash(_, _)
PyHash(seed, word) ==
    IF word = <<>> THEN 5381 + 7919 * seed
    ELSE (33 * PyHash(seed, SubSeq(word, 1, Len(word) - 1)) + Code(word[Len(word)]))
             % 16777213

\* sorted(S) of a set of numbers
RECURSIVE Sorted(_)
Sorted(S) == IF S = {} THEN <<>> ELSE <<First(S)>> \o Sorted(S \ {First(S)})

\* _text_to_sparse in the run salted with seed: <<index, weight>> pairs, by index
TextToSparse(seed, text) ==
    LET words == Words([i \in DOMAIN text |-> Lower(text[i])])
        clean == [i \in DOMAIN words |-> SelectSeq(words[i], IsAlnum)]
        kept == SelectSeq(clean, LAMBDA word : word # <<>> /\ Len(word) > 1)
        idx(word) == PyHash(seed, word) % 1000000
        indices == Sorted({idx(kept[i]) : i \in DOMAIN kept})
    IN  [k \in DOMAIN indices |->
            <<indices[k], Cardinality({i \in DOMAIN kept : idx(kept[i]) = indices[k]})>>]

SparseTexts ==
    {<<"a", "b">>, <<"a", "b", " ", "a", "b">>, <<"A", "b", ",", " ", "b", "a">>,
     <<"a", " ", "b", "a">>, <<"b", "1", NL, "a", "b">>}

SparseFrame ==
    UNCHANGED <<factoryVars, storeVars, rerankVars, searchVars, ex_call, directVars,
                chunk_call, fac_log, add_call>>

\* the server process is started again: a new salt
Restart ==
    /\ sparse_call.calls # <<>>
    /\ \E seed \in HashSeeds :
          /\ seed # sparse_call.seed
          /\ sparse_call' = [sparse_call EXCEPT !.seed = seed]
    /\ SparseFrame

\* one call, at indexing (add_document) or at query time (_hybrid_search)
SparseCall ==
    /\ Len(sparse_call.calls) < MaxSparseCalls
    /\ \E text \in SparseTexts :
          sparse_call' = [sparse_call EXCEPT !.calls =
              Append(@, [seed |-> sparse_call.seed, text |-> text,
                         out |-> TextToSparse(sparse_call.seed, text)])]
    /\ SparseFrame

InitSparse ==
    /\ IdleFactory
    /\ IdleStore
    /\ IdleRerank
    /\ IdleSearch
    /\ IdleExpand
    /\ store_call = NoStoreCall /\ tasks = NoTasks /\ lazy = NoLazy
    /\ chunk_call = NoChunkCall /\ fac_log = NoFacLog /\ add_call = NoAddCall
    /\ \E seed \in HashSeeds : sparse_call = [seed |-> seed, calls |-> <<>>]

NextSparse ==
    \/ SparseCall
    \/ Restart

SpecSparse == InitSparse /\ [][NextSparse]_vars

\* C27 (as claimed): the same text yields the same sparse vector on every
\* call, also when the two calls are made in different process runs.
C27_SparseDeterministic ==
    \A i, j \in DOMAIN sparse_call.calls :
        sparse_call.calls[i].text = sparse_call.calls[j].text
            => sparse_call.calls[i].out = sparse_call.calls[j].out

\* within one process run the transform is a function of the text
SparseDeterministicInOneRun ==
    \A i, j \in DOMAIN sparse_call.calls :
        (sparse_call.calls[i].text = sparse_call.calls[j].text
            /\ sparse_call.calls[i].seed = sparse_call.calls[j].seed)
            => sparse_call.calls[i].out = sparse_call.calls[j].out

-----------------------------------------------------------------------------
(* vector_store/factory.py as a state machine of its four functions *)

\* get_current_store_type(): reads the active type, fixing it from the
\* configuration when none is set
GetCurrentStoreType(cur) == IF cur # "none" THEN cur ELSE ConfigStoreType

FacLogged(op, arg, ret, didRaise, pinned) ==
    [n |-> fac_log.n + 1, pinned |-> pinned,
     last |-> [op |-> op, arg |-> arg, before |-> current_store_type,
               ret |-> ret, raised |-> didRaise]]

FactoryFrame ==
    UNCHANGED <<storeVars, rerankVars, searchVars, ex_call, directVars,
                chunk_call, sparse_call, add_call>>

\* get_vector_store() / get_vector_store(store_type)
FacGet ==
    /\ fac_log.n < MaxOps
    /\ \E store_type \in StoreTypes \cup {"none"}, createFails \in BOOLEAN :
          LET r == GetVectorStore(current_store_type, vector_store_instances,
                                  store_type, createFails)
          IN  /\ createFails => r.raised
              /\ current_store_type' = r.cur
              /\ vector_store_instances' = r.instances
              /\ fac_log' = FacLogged("get", store_type, r.ret, r.raised, fac_log.pinned)
    /\ FactoryFrame

\* set_vector_store_type(store_type)
FacSet ==
    /\ fac_log.n < MaxOps
    /\ \E store_type \in StoreTypes \cup {"bogus"}, createFails \in BOOLEAN :
          LET r == SetVectorStoreType(current_store_type, vector_store_instances,
                                      store_type, createFails)
          IN  /\ createFails => (r.raised /\ store_type \in StoreTypes)
              /\ current_store_type' = r.cur
              /\ vector_store_instances' = r.instances
              /\ fac_log' = FacLogged("set", store_type, r.ret, r.raised,
                                      IF r.raised THEN fac_log.pinned ELSE store_type)
    /\ FactoryFrame

\* reset_vector_store()
FacReset ==
    /\ fac_log.n < MaxOps
    /\ current_store_type' = "none"
    /\ vector_store_instances' = {}
    /\ fac_log' = FacLogged("reset", "none", "none", FALSE, "none")
    /\ FactoryFrame

\* get_current_store_type()
FacCurrent ==
    /\ fac_log.n < MaxOps
    /\ current_store_type' = GetCurrentStoreType(current_store_type)
    /\ fac_log' = FacLogged("current", "none", GetCurrentStoreType(current_store_type),
                            FALSE, fac_log.pinned)
    /\ UNCHANGED vector_store_instances
    /\ FactoryFrame

InitFactory ==
    /\ IdleFactory
    /\ IdleStore
    /\ IdleRerank
    /\ IdleSearch
    /\ IdleExpand
    /\ IdleDirect

NextFactory ==
    \/ FacGet
    \/ FacSet
    \/ FacReset
    \/ FacCurrent

SpecFactory == InitFactory /\ [][NextFactory]_vars

\* C28 (as claimed): once set_vector_store_type(t) has succeeded, t stays the
\* active type and get_vector_store() answers the instance of type t until the
\* next set or reset: no other call changes the active type, and a
\* set_vector_store_type that raises leaves it as it was.
C28_ActiveTypeStable ==
    /\ fac_log.pinned # "none" => current_store_type = fac_log.pinned
    /\ (fac_log.pinned # "none" /\ fac_log.last.op = "get"
           /\ fac_log.last.arg = "none" /\ ~fac_log.last.raised)
          => fac_log.last.ret = fac_log.pinned
    /\ (fac_log.last.op = "set" /\ fac_log.last.raised)
          => GetCurrentStoreType(current_store_type)
                 = GetCurrentStoreType(fac_log.last.before)

\* each half alone
ExplicitGetKeepsActive ==
    (fac_log.last.op = "get" /\ fac_log.pinned # "none")
        => current_store_type = fac_log.pinned
RaisingSetKeepsActive ==
    (fac_log.last.op = "set" /\ fac_log.last.raised)
        => GetCurrentStoreType(current_store_type)
               = GetCurrentStoreType(fac_log.last.before)

-----------------------------------------------------------------------------
(* rag_service.py: RAGService.add_document, and a delete_document after it *)

\* document-level metadata a caller may hand over: also keys the stores write
AddMetas ==
    Metas \cup {[document_id |-> 7], [content |-> "Z"],
                [total_chunks |-> 9, chunk_index |-> 5]}

\* RAGService.add_document.  fail: "embed" (embed_texts raises), "ensure",
\* "write" (the store fails), "none".  The value the store answers is dropped:
\* the method has no return statement.
RagAddDocument(b, T, workspace_id, document_id, chunks, metadata, id0, fail) ==
    IF fail = "embed" THEN [T |-> T, raised |-> TRUE]
    ELSE LET r == StoreAdd(b, T, workspace_id, document_id, chunks, metadata, id0, fail)
         IN  [T |-> r.T, raised |-> r.raised]

AddFrame ==
    UNCHANGED <<factoryVars, opLog, rerankVars, searchVars, ex_call, directVars,
                chunk_call, sparse_call, fac_log>>

\* await rag_service.add_document(workspace_id, document_id, chunks, metadata)
AddDocumentCall ==
    /\ ~add_call.called
    /\ \E w \in WorkspaceIds, d \in DocIds, metadata \in AddMetas,
          fail \in {"none", "embed", "ensure", "write"} :
          LET r == RagAddDocument(Active, tables[Active], w, d, ChunksOf(d), metadata,
                                  nextId, fail)
          IN  /\ tables' = [tables EXCEPT ![Active] = r.T]
              /\ nextId' = nextId + Len(ChunksOf(d))
              /\ add_call' = [called |-> TRUE, b |-> Active, w |-> w, d |-> d,
                              metadata |-> metadata, fail |-> fail, raised |-> r.raised,
                              id0 |-> nextId, deleted |-> FALSE]
    /\ AddFrame

\* delete_document(w, d) for the document of the call
DeleteAfterAdd ==
    /\ add_call.called
    /\ ~add_call.deleted
    /\ LET r == StoreDeleteDocument(add_call.b, tables[add_call.b], add_call.w,
                                    add_call.d, FALSE)
       IN  /\ r.ret
           /\ tables' = [tables EXCEPT ![add_call.b] = r.T]
    /\ add_call' = [add_call EXCEPT !.deleted = TRUE]
    /\ UNCHANGED nextId
    /\ AddFrame

InitAdd ==
    /\ current_store_type \in StoreTypes
    /\ vector_store_instances = {current_store_type}
    /\ \E docs \in SUBSET DocIds :
          /\ tables = [b \in StoreTypes |-> Seeded(b, docs)]
          /\ nextId = 5
    /\ opLog = NoOp
    /\ IdleRerank
    /\ IdleSearch
    /\ IdleExpand
    /\ IdleDirect

NextAdd ==
    \/ AddDocumentCall
    \/ DeleteAfterAdd

SpecAdd == InitAdd /\ [][NextAdd]_vars

\* the records the call of add_call stored that are still in the storage
StoredByCall ==
    LET name == NameOf(add_call.b, add_call.w)
        T == tables[add_call.b]
        rows == IF Exists(T, name) THEN T[name].rows ELSE <<>>
    IN  SelectSeq(rows, LAMBDA r : r.id >= add_call.id0
                                   /\ r.id < add_call.id0 + Len(ChunksOf(add_call.d)))

\* C29 (as claimed): every record an add_document(w, d, ...) call stores
\* carries document_id = d, its own chunk text, its position and the number
\* of chunks of the call, whatever the caller's metadata holds; a
\* delete_document(w, d) afterwards leaves none of them.
C29_RecordsCarryDocumentId ==
    add_call.called =>
        /\ \A i \in DOMAIN StoredByCall :
              LET r == StoredByCall[i]
                  k == r.id - add_call.id0 + 1
              IN  /\ r.document_id = add_call.d
                  /\ r.content = ChunksOf(add_call.d)[k]
                  /\ r.chunk_index = k - 1
                  /\ r.total_chunks = Len(ChunksOf(add_call.d))
        /\ add_call.deleted => StoredByCall = <<>>

\* C30 (as claimed): a RAGService.add_document call whose chunks were not
\* stored does not end like a successful one: its caller gets an exception.
C30_AddFailureObserved ==
    (add_call.called /\ ~add_call.deleted /\ StoredByCall = <<>>) => add_call.raised

=============================================================================
